---- MODULE Spec2Model ----
(***************************************************************************)
(* A model of the cookie-session controller (class CookieSession) and of   *)
(* its express middleware.  The controller keeps the whole session in one  *)
(* signed cookie: it resolves and validates its options, loads the data    *)
(* map from the inbound cookie, hands the data map to the request handler  *)
(* behind a Proxy whose get trap implements "flash" (read-once) data, and  *)
(* writes the data map back as a JSON web token when res.end is called.    *)
(***************************************************************************)
EXTENDS Integers, Sequences, FiniteSets, TLC

VARIABLES
    opts,      \* the options object the caller passes to express(opts) / new CookieSession(opts, ..)
    now,       \* the clock, in seconds (Date.now() / 1000 as jsonwebtoken reads it)
    uuids,     \* how many identifiers randomUUID() has produced
    jar,       \* the cookie the browser holds: the last Set-Cookie it received
    nreq,      \* how many requests have arrived
    pc,        \* where the middleware / handler of the current request stands
    req,       \* the request object
    res,       \* the response object
    cs,        \* the controller under construction or constructed (`this`)
    heap,      \* the data objects: address -> [props, proxy]
    load,      \* the pending loadCookieData() of the current request
    ends,      \* the invocations of the intercepted res.end, oldest first
    nextCalls, \* the calls made to next, oldest first
    cbq,       \* the completion callbacks callbackify still has to invoke
    thrown,    \* the message of the last error raised to the caller ("" when none)
    ret,       \* the last value the handler observed: [op, key, val]
    caller,    \* what code using a controller directly holds: [data, token, decoded]
    pair       \* two requests in flight at once: slot -> [pc, req, res, cs, load, ret]

vars == <<opts, now, uuids, jar, nreq, pc, req, res, cs, heap, load, ends,
          nextCalls, cbq, thrown, ret, caller, pair>>

----------------------------------------------------------------------------
(* Bounds of the model.                                                    *)

MaxSecretLen == 17   \* secrets of every length 0..MaxSecretLen are tried
MaxTime == 2         \* the clock runs from 0 to MaxTime
MaxUuid == 2         \* randomUUID() is called at most MaxUuid times
MaxRequests == 2     \* requests handled one after the other
MaxCallbacks == 1    \* completion callbacks pending at once

----------------------------------------------------------------------------
(* JavaScript values and plain objects.                                    *)

Undefined == [t |-> "undefined", v |-> 0]
Json(n) == [t |-> "json", v |-> n]
Uuid(n) == [t |-> "uuid", v |-> n]
Fn(i) == [t |-> "function", v |-> i]

EmptyObject == [k \in {} |-> Undefined]

Has(o, k) == k \in DOMAIN o

\* o[k]
Prop(o, k) == IF k \in DOMAIN o THEN o[k] ELSE Undefined

\* o[k] = v
Assign(o, k, v) == [x \in (DOMAIN o) \cup {k} |-> IF x = k THEN v ELSE o[x]]

\* delete o[k]
DeleteProp(o, k) == [x \in (DOMAIN o) \ {k} |-> o[x]]

\* { ...o, ...p }
Spread(o, p) ==
    [x \in (DOMAIN o) \cup (DOMAIN p) |-> IF x \in DOMAIN p THEN p[x] ELSE o[x]]

\* o.k ?? d
Coalesce(o, k, d) == IF k \in DOMAIN o THEN o[k] ELSE d

\* a string of n characters c
RECURSIVE Str(_, _)
Str(n, c) == IF n = 0 THEN <<>> ELSE Append(Str(n - 1, c), c)

----------------------------------------------------------------------------
(* Options: defaulting and validation.                                     *)

MinSecretLen == 16
DefaultDuration == 24 * 60 * 60 * 1000
DefaultFlash == FALSE
DefaultName == "session"
DefaultPath == "/"
NoError == ""
InvalidSecret == "Secret must be at least 16 characters long"

\* applyDefaultOpts with a cookie object that holds the path alone
applyDefaultOptsPathOnly(o) ==
    LET o1 == Assign(o, "cookie", Coalesce(o, "cookie", EmptyObject))
        defaults ==
            [duration |-> Coalesce(o1, "duration", DefaultDuration),
             flash    |-> Coalesce(o1, "flash", DefaultFlash),
             name     |-> Coalesce(o1, "name", DefaultName),
             cookie   |-> [path |-> Coalesce(o1["cookie"], "path", DefaultPath)]]
    IN  [caller |-> o1, opts |-> Spread(o1, defaults)]

\* applyDefaultOpts: `caller` is the caller's object as the method leaves it,
\* `opts` the new object this.opts ends up referring to.
applyDefaultOpts(o) ==
    LET o1 == Assign(o, "cookie", Coalesce(o, "cookie", EmptyObject))
        defaults ==
            [duration |-> Coalesce(o1, "duration", DefaultDuration),
             flash    |-> Coalesce(o1, "flash", DefaultFlash),
             name     |-> Coalesce(o1, "name", DefaultName),
             cookie   |-> Assign(o1["cookie"], "path",
                                 Coalesce(o1["cookie"], "path", DefaultPath))]
    IN  [caller |-> o1, opts |-> Spread(o1, defaults)]

\* validate with the limit one character short
validateOneShort(o) ==
    IF ~Has(o, "secret") \/ Len(o["secret"]) = 0 \/ Len(o["secret"]) < MinSecretLen - 1
    THEN InvalidSecret
    ELSE NoError

\* validate: the message of the error it throws, NoError when it returns
validate(o) ==
    IF ~Has(o, "secret") \/ Len(o["secret"]) = 0 \/ Len(o["secret"]) < MinSecretLen
    THEN InvalidSecret
    ELSE NoError

----------------------------------------------------------------------------
(* The data objects.  this.data and req.session are references: both name  *)
(* an address of the heap.  An object and the Proxy that wraps it are one  *)
(* entry, since the target is reachable through its Proxy alone.           *)

NoAddr == 0
EmptyHeap == [a \in {} |-> [props |-> EmptyObject, proxy |-> FALSE]]

\* the address a new object gets: the first one that is free
Alloc(h) ==
    CHOOSE a \in 1..(Cardinality(DOMAIN h) + 1) :
        a \notin DOMAIN h /\ \A b \in 1..(a - 1) : b \in DOMAIN h

\* h with a new plain object at address a
NewObject(h, a, props) ==
    [x \in (DOMAIN h) \cup {a} |->
        IF x = a THEN [props |-> props, proxy |-> FALSE] ELSE h[x]]

\* h without the objects no reference in `roots` names
Collect(h, roots) == [x \in (DOMAIN h) \cap roots |-> h[x]]

----------------------------------------------------------------------------
(* The controller.                                                         *)

NoThis == [opts |-> EmptyObject, cookies |-> FALSE, data |-> NoAddr]

\* a constructor whose controllers all have one and the same data map, as a
\* data map kept by the module would be
CookieSessionSharedData(o, h) ==
    LET a == applyDefaultOpts(o)
        this1 == [NoThis EXCEPT !.opts = a.opts]
        err == validate(this1.opts)
    IN  IF err # NoError
        THEN [thrown |-> err, this |-> this1, caller |-> a.caller, heap |-> h]
        ELSE [thrown |-> NoError,
              this   |-> [this1 EXCEPT !.cookies = TRUE, !.data = 1],
              caller |-> a.caller,
              heap   |-> NewObject(h, 1, EmptyObject)]

\* new CookieSession(opts, req, res): `this` as the constructor leaves it,
\* the caller's options object, the heap, and the error thrown if any.
CookieSession(o, h) ==
    LET a == applyDefaultOpts(o)
        this1 == [NoThis EXCEPT !.opts = a.opts]
        err == validate(this1.opts)
        addr == Alloc(h)
    IN  IF err # NoError
        THEN [thrown |-> err, this |-> this1, caller |-> a.caller, heap |-> h]
        ELSE [thrown |-> NoError,
              this   |-> [this1 EXCEPT !.cookies = TRUE, !.data = addr],
              caller |-> a.caller,
              heap   |-> NewObject(h, addr, EmptyObject)]

\* getDataItem with no exception made for 'id'
getDataItemAnyKey(this, target, prop) ==
    [value  |-> Prop(target, prop),
     target |-> IF this.opts["flash"] THEN DeleteProp(target, prop) ELSE target]

\* getDataItem with the flash option ignored
getDataItemAlways(this, target, prop) ==
    [value  |-> Prop(target, prop),
     target |-> IF prop # "id" THEN DeleteProp(target, prop) ELSE target]

\* getDataItem deleting nothing
getDataItemKeep(this, target, prop) ==
    [value |-> Prop(target, prop), target |-> target]

\* getDataItem deleting, with the key read, every key but id
getDataItemDropAll(this, target, prop) ==
    [value  |-> Prop(target, prop),
     target |-> IF this.opts["flash"] /\ prop # "id"
                THEN [x \in (DOMAIN target) \cap {"id"} |-> target[x]]
                ELSE target]

\* getDataItem(target, prop, receiver): the value read and the target after
\* `delete receiver[prop]`, which the Proxy forwards to its target.
getDataItem(this, target, prop) ==
    [value  |-> Prop(target, prop),
     target |-> IF this.opts["flash"] /\ prop # "id"
                THEN DeleteProp(target, prop)
                ELSE target]

\* obj[prop] read through a reference: the get trap runs when obj is a Proxy
Get(this, obj, prop) ==
    IF obj.proxy
    THEN LET r == getDataItem(this, obj.props, prop)
         IN  [value |-> r.value, obj |-> [obj EXCEPT !.props = r.target]]
    ELSE [value |-> Prop(obj.props, prop), obj |-> obj]

\* obj[prop] = v through a reference: the Proxy has no set trap
Set(obj, prop, v) == [obj EXCEPT !.props = Assign(obj.props, prop, v)]

\* proxyData: this.data = new Proxy(this.data, {get})
proxyData(this, h) == [h EXCEPT ![this.data].proxy = TRUE]

Truthy(v) == v.t # "undefined"

\* get sessionId making a new identifier whether the data map has one or not
sessionIdAlwaysNew(this, h, n) ==
    [value |-> Uuid(n + 1),
     heap  |-> [h EXCEPT ![this.data] = Set(@, "id", Uuid(n + 1))],
     uuids |-> n + 1]

\* get sessionId returning a new identifier without storing it
sessionIdForgetful(this, h, n) ==
    LET r1 == Get(this, h[this.data], "id")
    IN  [value |-> IF Truthy(r1.value) THEN r1.value ELSE Uuid(n + 1),
         heap  |-> [h EXCEPT ![this.data] = r1.obj],
         uuids |-> IF Truthy(r1.value) THEN n ELSE n + 1]

\* get sessionId: the identifier, the heap and the count of identifiers made
sessionId(this, h, n) ==
    LET r1 == Get(this, h[this.data], "id")
        h1 == [h EXCEPT ![this.data] = r1.obj]
        h2 == IF Truthy(r1.value)
              THEN h1
              ELSE [h1 EXCEPT ![this.data] = Set(h1[this.data], "id", Uuid(n + 1))]
        r2 == Get(this, h2[this.data], "id")
    IN  [value |-> r2.value,
         heap  |-> [h2 EXCEPT ![this.data] = r2.obj],
         uuids |-> IF Truthy(r1.value) THEN n ELSE n + 1]

----------------------------------------------------------------------------
(* JSON and the JSON web token.                                            *)

UserKeys == {"date", "data2"}
OpNames == <<"destroy", "regenerate", "reload", "save", "touch">>
OpKeys == {OpNames[i] : i \in DOMAIN OpNames}
Keys == {"id"} \cup UserKeys \cup OpKeys

\* the order in which the own keys of an object are enumerated
KeyOrder == <<"id", "date", "data2", "destroy", "regenerate", "reload", "save", "touch">>

\* JSON.stringify writing out a function as it does a value
SerialisableAll(v) == v.t # "undefined"

\* JSON.stringify: a value with no JSON form is left out of an object
Serialisable(v) == v.t \notin {"undefined", "function"}

\* JSON.stringify(obj), members ks[i..] of the key list taken before the first
\* read: each value is read with obj[k], through the get trap of a Proxy.
RECURSIVE StringifyFrom(_, _, _, _)
StringifyFrom(this, obj, ks, i) ==
    IF i > Len(ks)
    THEN [text |-> <<>>, obj |-> obj]
    ELSE LET r == Get(this, obj, ks[i])
             rest == StringifyFrom(this, r.obj, ks, i + 1)
         IN  [text |-> IF Serialisable(r.value)
                       THEN <<[key |-> ks[i], value |-> r.value]>> \o rest.text
                       ELSE rest.text,
              obj  |-> rest.obj]

OwnKeys(o) == SelectSeq(KeyOrder, LAMBDA k : k \in DOMAIN o)

JSONstringify(this, obj) ==
    LET r == Get(this, obj, "toJSON")
    IN  StringifyFrom(this, r.obj, OwnKeys(obj.props), 1)

\* JSON.parse of the text of an object
JSONparse(text) ==
    [k \in {text[i].key : i \in DOMAIN text} |->
        (CHOOSE m \in {text[i] : i \in DOMAIN text} : m.key = k).value]

\* Math.floor(a / b) in the place of Math.round
MathFloor(a, b) == a \div b

\* Math.round(a / b), b > 0
MathRound(a, b) == (2 * a + b) \div (2 * b)

\* HMAC-SHA256 of a token body under a key: only the same key and the same
\* body give the same signature
HS256(key, body) == [key |-> key, body |-> body]

NoBody == [session |-> <<>>, iat |-> 0, nbf |-> 0, exp |-> 0]
NoCookie == [kind |-> "none", body |-> NoBody, sig |-> HS256(<<>>, NoBody)]
Garbage == [kind |-> "garbage", body |-> NoBody, sig |-> HS256(<<>>, NoBody)]

\* jwt.sign({session}, secret, {notBefore, expiresIn}) at time t
jwtSign(this, session, secret, options, t) ==
    LET s == JSONstringify(this, session)
        body == [session |-> s.text, iat |-> t,
                 nbf |-> t + options.notBefore, exp |-> t + options.expiresIn]
    IN  [token |-> [kind |-> "jwt", body |-> body, sig |-> HS256(secret, body)],
         session |-> s.obj]

\* jwt.verify never finding a token expired
jwtVerifyNoExpiry(token, secret, t) ==
    [session |-> JSONparse(token.body.session),
     thrown  |-> IF token.kind # "jwt" THEN "jwt malformed"
                 ELSE IF token.sig # HS256(secret, token.body) THEN "invalid signature"
                 ELSE IF token.body.nbf > t THEN "jwt not active"
                 ELSE NoError]

\* jwt.verify(token, secret) at time t: the payload, and the error thrown
\* instead of returning it if any
jwtVerify(token, secret, t) ==
    [session |-> JSONparse(token.body.session),
     thrown  |-> IF token.kind # "jwt" THEN "jwt malformed"
                 ELSE IF token.sig # HS256(secret, token.body) THEN "invalid signature"
                 ELSE IF token.body.nbf > t THEN "jwt not active"
                 ELSE IF t >= token.body.exp THEN "jwt expired"
                 ELSE NoError]

\* decryptData with no try/catch around jwt.verify
decryptDataNoCatch(this, input, t) ==
    LET r == jwtVerify(input, this.opts["secret"], t)
    IN  [thrown |-> r.thrown, value |-> r.session]

\* decryptData giving up on every token
decryptDataEmpty(this, input, t) == [thrown |-> NoError, value |-> EmptyObject]

\* decryptData decoding the payload without verifying the token
decryptDataNoVerify(this, input, t) ==
    [thrown |-> NoError, value |-> JSONparse(input.body.session)]

\* decryptData(input): the map it resolves to, and the error it rejects with
\* if any
decryptData(this, input, t) ==
    LET r == jwtVerify(input, this.opts["secret"], t)
    IN  [thrown |-> NoError,
         value  |-> IF r.thrown # NoError THEN EmptyObject ELSE r.session]

\* encryptData signing the data map a second time and returning that token
encryptDataTwice(this, h, t) ==
    LET options == [notBefore |-> 0,
                    expiresIn |-> MathRound(this.opts["duration"], 1000)]
        r1 == jwtSign(this, h[this.data], this.opts["secret"], options, t)
        r2 == jwtSign(this, r1.session, this.opts["secret"], options, t)
    IN  [token |-> r2.token, heap |-> [h EXCEPT ![this.data] = r2.session]]

\* encryptData(): the token and the heap after the data map has been read
encryptData(this, h, t) ==
    LET r == jwtSign(this, h[this.data], this.opts["secret"],
                     [notBefore |-> 0,
                      expiresIn |-> MathRound(this.opts["duration"], 1000)], t)
    IN  [token |-> r.token, heap |-> [h EXCEPT ![this.data] = r.session]]

----------------------------------------------------------------------------
(* The cookie transport (Cookies) and the rest of the controller.          *)

NoHeader == [name |-> "", value |-> NoCookie]

\* cookies.get returning the request's cookie whatever its name
cookiesGetAnyName(request, name) ==
    IF ~request.headers
    THEN [thrown |-> "TypeError", value |-> NoCookie]
    ELSE [thrown |-> NoError, value |-> request.cookie.value]

\* this.cookies.get(name, {signed}): the value of the request's cookie `name`
\* (kind "none" when it carries none), or the error thrown when the request
\* has no headers to read
cookiesGet(request, name) ==
    IF ~request.headers
    THEN [thrown |-> "TypeError", value |-> NoCookie]
    ELSE IF request.cookie.value.kind # "none" /\ request.cookie.name = name
    THEN [thrown |-> NoError, value |-> request.cookie.value]
    ELSE [thrown |-> NoError, value |-> NoCookie]

NoLoad == [state |-> "none", cookieData |-> EmptyObject, error |-> NoError]

\* loadCookieData(), up to its await (or to its end when it awaits nothing)
loadCookieDataStart(this, h, request, t) ==
    LET g == cookiesGet(request, this.opts["name"])
    IN  IF g.thrown # NoError
        THEN [load |-> [NoLoad EXCEPT !.state = "rejected", !.error = g.thrown],
              heap |-> h]
        ELSE IF g.value.kind = "none"
        THEN [load |-> [NoLoad EXCEPT !.state = "resolved"],
              heap |-> proxyData(this, h)]
        ELSE LET d == decryptData(this, g.value, t)
             IN  [load |-> IF d.thrown # NoError
                           THEN [NoLoad EXCEPT !.state = "rejected", !.error = d.thrown]
                           ELSE [NoLoad EXCEPT !.state = "decrypted",
                                               !.cookieData = d.value],
                  heap |-> h]

\* loadCookieData merging the decoded map into the data map
loadCookieDataResumeMerge(this, h, cookieData) ==
    LET addr == Alloc(h)
        this1 == [this EXCEPT !.data = addr]
    IN  [this |-> this1,
         heap |-> proxyData(this1,
                      NewObject(h, addr, Spread(h[this.data].props, cookieData)))]

\* loadCookieData(), from its await on: an object is truthy, empty or not
loadCookieDataResume(this, h, cookieData) ==
    LET addr == Alloc(h)
        this1 == [this EXCEPT !.data = addr]
    IN  [this |-> this1,
         heap |-> proxyData(this1, NewObject(h, addr, Spread(EmptyObject, cookieData)))]

\* regenerate taking a new identifier whatever newId is
regenerateAlwaysNew(this, h, newId, n) ==
    LET addr == Alloc(h)
        this1 == [this EXCEPT !.data = addr]
    IN  [this  |-> this1,
         heap  |-> proxyData(this1,
                       NewObject(h, addr, Assign(EmptyObject, "id", Uuid(n + 1)))),
         uuids |-> n + 1]

\* regenerate keeping the identifier whatever newId is
regenerateNeverNew(this, h, newId, n) ==
    LET sid == sessionId(this, h, n)
        addr == Alloc(sid.heap)
        this1 == [this EXCEPT !.data = addr]
    IN  [this  |-> this1,
         heap  |-> proxyData(this1,
                       NewObject(sid.heap, addr, Assign(EmptyObject, "id", sid.value))),
         uuids |-> sid.uuids]

\* regenerate keeping the keys of the data map
regenerateKeepData(this, h, newId, n) ==
    LET sid == IF newId
               THEN [value |-> Uuid(n + 1), heap |-> h, uuids |-> n + 1]
               ELSE sessionId(this, h, n)
        addr == Alloc(sid.heap)
        this1 == [this EXCEPT !.data = addr]
    IN  [this  |-> this1,
         heap  |-> proxyData(this1,
                       NewObject(sid.heap, addr,
                                 Assign(sid.heap[this.data].props, "id", sid.value))),
         uuids |-> sid.uuids]

\* regenerate(newId)
regenerate(this, h, newId, n) ==
    LET sid == IF newId
               THEN [value |-> Uuid(n + 1), heap |-> h, uuids |-> n + 1]
               ELSE sessionId(this, h, n)
        addr == Alloc(sid.heap)
        this1 == [this EXCEPT !.data = addr]
    IN  [this  |-> this1,
         heap  |-> proxyData(this1,
                       NewObject(sid.heap, addr, Assign(EmptyObject, "id", sid.value))),
         uuids |-> sid.uuids]

\* cookies.set called without the options
cookiesSetNoOptions(response, name, value, options) ==
    [response EXCEPT !.setCookie =
        Append(@, [name |-> name, value |-> value, options |-> EmptyObject])]

\* this.cookies.set(name, value, options): the Set-Cookie the response carries
cookiesSet(response, name, value, options) ==
    [response EXCEPT !.setCookie =
        Append(@, [name |-> name, value |-> value, options |-> options])]

----------------------------------------------------------------------------
(* The express middleware.                                                 *)

NoReq == [headers |-> TRUE, cookie |-> NoHeader, session |-> NoAddr,
          sessionID |-> Undefined, cookieSession |-> FALSE]
NoRes == [patched |-> FALSE, setCookie |-> <<>>, endCalls |-> <<>>]
NoRet == [op |-> "", key |-> "", val |-> Undefined]
DuplicateSession == "Cannot redeclare session"

\* createSessionObject leaving out the last of the operations
RECURSIVE SetOpsButLast(_, _)
SetOpsButLast(obj, i) ==
    IF i > Len(OpNames) - 1 THEN obj ELSE SetOpsButLast(Set(obj, OpNames[i], Fn(i)), i + 1)

\* createSessionObject: req.session.destroy = .., .., req.session.touch = ..
RECURSIVE SetOps(_, _)
SetOps(obj, i) ==
    IF i > Len(OpNames) THEN obj ELSE SetOps(Set(obj, OpNames[i], Fn(i)), i + 1)

\* createSessionObject leaving req.sessionID what it is once it is set
createSessionObjectStaleId(request, this, h, n) ==
    LET sid == sessionId(this, h, n)
        request1 == [request EXCEPT
                        !.sessionID = IF @ = Undefined THEN sid.value ELSE @,
                        !.session = this.data]
    IN  [req   |-> request1,
         heap  |-> [sid.heap EXCEPT ![request1.session] = SetOps(@, 1)],
         uuids |-> sid.uuids]

\* createSessionObject()
createSessionObject(request, this, h, n) ==
    LET sid == sessionId(this, h, n)
        request1 == [request EXCEPT !.sessionID = sid.value, !.session = this.data]
    IN  [req   |-> request1,
         heap  |-> [sid.heap EXCEPT ![request1.session] = SetOps(@, 1)],
         uuids |-> sid.uuids]

----------------------------------------------------------------------------
(* Requests.                                                               *)

MaxVal == 2

\* the values a handler stores: JSON values, which JSON.parse gives back as
\* they were from the text JSON.stringify makes of them.  (A value with a
\* toJSON of its own, a Date for one, is stored in the token as what that
\* method returns.)
Vals == {Json(n) : n \in 1..MaxVal}
EndArgs == {[chunk |-> "body", encoding |-> "utf8", cb |-> 1],
            [chunk |-> "", encoding |-> "hex", cb |-> 0]}

OtherSecret == Str(MinSecretLen, "o")

\* the payload of a token: a session with a key of user data
SomeBody(from, to) ==
    [session |-> <<[key |-> "id", value |-> Uuid(0)],
                   [key |-> "date", value |-> Json(1)]>>,
     iat |-> from, nbf |-> from, exp |-> to]

\* a token this server issued a second ago, good for another second
Issued(secret, t) ==
    [kind |-> "jwt", body |-> SomeBody(t - 1, t + 1),
     sig |-> HS256(secret, SomeBody(t - 1, t + 1))]

\* a token this server issued two seconds ago, which a second ago expired
Stale(secret, t) ==
    [kind |-> "jwt", body |-> SomeBody(t - 2, t - 1),
     sig |-> HS256(secret, SomeBody(t - 2, t - 1))]

\* a token another party signed under a secret of its own
Forged(t) ==
    [kind |-> "jwt", body |-> SomeBody(t, t + 1),
     sig |-> HS256(OtherSecret, SomeBody(t, t + 1))]

\* a token whose payload was altered after it was signed
Tampered(token) ==
    [token EXCEPT !.body.exp = @ + 1,
                  !.body.session = @ \o <<[key |-> "data2", value |-> Json(2)]>>]

\* the Cookie headers a request may carry
InboundCookies ==
    LET name == Coalesce(opts, "name", DefaultName)
        secret == Coalesce(opts, "secret", <<>>)
    IN  {NoHeader,
         [name |-> name, value |-> Issued(secret, now)],
         [name |-> name, value |-> Stale(secret, now)],
         [name |-> name, value |-> Forged(now)],
         [name |-> name, value |-> Garbage]}
        \cup (IF jar.value.kind = "jwt"
              THEN {jar, [jar EXCEPT !.value = Tampered(@)]}
              ELSE {})

\* a session another middleware attached to the request before this one
ForeignSession == Assign(EmptyObject, "date", Json(1))

\* the handler looking for a session on the request only once it has
\* constructed its controller
MiddlewareDupLate(cookie, headers, dup) ==
    /\ pc = "idle"
    /\ nreq < MaxRequests
    /\ nreq' = nreq + 1
    /\ res' = NoRes
    /\ ends' = <<>>
    /\ cbq' = <<>>
    /\ ret' = NoRet
    /\ LET request == [NoReq EXCEPT !.headers = headers, !.cookie = cookie,
                                    !.session = IF dup THEN 1 ELSE NoAddr]
           h0 == IF dup THEN NewObject(EmptyHeap, 1, ForeignSession) ELSE EmptyHeap
           c == CookieSession(opts, h0)
       IN  /\ opts' = c.caller
           /\ cs' = c.this
           /\ thrown' = c.thrown
           /\ IF c.thrown # NoError
              THEN /\ req' = request
                   /\ heap' = h0
                   /\ nextCalls' = <<>>
                   /\ load' = NoLoad
                   /\ pc' = "rejected"
              ELSE IF dup
              THEN /\ req' = [request EXCEPT !.cookieSession = TRUE]
                   /\ heap' = c.heap
                   /\ nextCalls' = <<DuplicateSession>>
                   /\ load' = NoLoad
                   /\ pc' = "errored"
              ELSE LET l == loadCookieDataStart(c.this, c.heap, request, now)
                   IN  /\ req' = [request EXCEPT !.cookieSession = TRUE]
                       /\ heap' = l.heap
                       /\ nextCalls' = <<>>
                       /\ load' = l.load
                       /\ pc' = "loading"
    /\ UNCHANGED <<pair, caller, now, uuids, jar>>

\* the handler express(opts) returns, called with (req, res, next): up to its
\* first await, or to its end when it returns or throws before
Middleware(cookie, headers, dup) ==
    /\ pc = "idle"
    /\ nreq < MaxRequests
    /\ nreq' = nreq + 1
    /\ res' = NoRes
    /\ ends' = <<>>
    /\ cbq' = <<>>
    /\ ret' = NoRet
    /\ LET request == [NoReq EXCEPT !.headers = headers, !.cookie = cookie]
       IN  IF dup
           THEN /\ req' = [request EXCEPT !.session = 1]
                /\ heap' = NewObject(EmptyHeap, 1, ForeignSession)
                /\ nextCalls' = <<DuplicateSession>>
                /\ pc' = "errored"
                /\ UNCHANGED <<opts, cs, load, thrown>>
           ELSE LET c == CookieSession(opts, EmptyHeap)
                IN  /\ opts' = c.caller
                    /\ cs' = c.this
                    /\ nextCalls' = <<>>
                    /\ thrown' = c.thrown
                    /\ IF c.thrown # NoError
                       THEN /\ req' = request
                            /\ heap' = Collect(c.heap, {})
                            /\ load' = NoLoad
                            /\ pc' = "rejected"
                       ELSE LET l == loadCookieDataStart(c.this, c.heap, request, now)
                            IN  /\ req' = [request EXCEPT !.cookieSession = TRUE]
                                /\ heap' = l.heap
                                /\ load' = l.load
                                /\ pc' = "loading"
    /\ UNCHANGED <<pair, caller, now, uuids, jar>>

\* loadCookieData() resumes after `await this.decryptData(encData)`
LoadResume ==
    /\ pc = "loading"
    /\ load.state = "decrypted"
    /\ LET r == loadCookieDataResume(cs, heap, load.cookieData)
       IN  /\ cs' = r.this
           /\ heap' = Collect(r.heap, {r.this.data})
    /\ load' = [load EXCEPT !.state = "resolved"]
    /\ UNCHANGED <<pair, caller, opts, now, uuids, jar, nreq, pc, req, res, ends, nextCalls,
                   cbq, thrown, ret>>

\* the handler replacing res.end before it knows how the load went
MiddlewareResumePatchFirst ==
    /\ pc = "loading"
    /\ load.state \in {"resolved", "rejected"}
    /\ IF load.state = "rejected"
       THEN /\ nextCalls' = Append(nextCalls, load.error)
            /\ pc' = "errored"
            /\ res' = [res EXCEPT !.patched = TRUE]
            /\ UNCHANGED <<req, heap, uuids>>
       ELSE \E c \in {createSessionObject(req, cs, heap, uuids)} :
                /\ c.uuids <= MaxUuid
                /\ req' = c.req
                /\ heap' = c.heap
                /\ uuids' = c.uuids
                /\ res' = [res EXCEPT !.patched = TRUE]
                /\ nextCalls' = Append(nextCalls, NoError)
                /\ pc' = "handler"
    /\ load' = NoLoad
    /\ UNCHANGED <<pair, caller, opts, now, jar, nreq, cs, ends, cbq, thrown, ret>>

\* the handler going on without awaiting loadCookieData()
MiddlewareResumeEarly ==
    /\ pc = "loading"
    /\ \E c \in {createSessionObject(req, cs, heap, uuids)} :
           /\ c.uuids <= MaxUuid
           /\ req' = c.req
           /\ heap' = c.heap
           /\ uuids' = c.uuids
           /\ res' = [res EXCEPT !.patched = TRUE]
           /\ nextCalls' = Append(nextCalls, NoError)
           /\ pc' = "handler"
    /\ UNCHANGED <<pair, caller, opts, now, jar, nreq, cs, load, ends, cbq, thrown, ret>>

\* the handler with no return after next(err): it goes on to next()
MiddlewareResumeNoReturn ==
    /\ pc = "loading"
    /\ load.state \in {"resolved", "rejected"}
    /\ \E c \in {createSessionObject(req, cs, heap, uuids)} :
           /\ c.uuids <= MaxUuid
           /\ req' = c.req
           /\ heap' = c.heap
           /\ uuids' = c.uuids
           /\ res' = [res EXCEPT !.patched = TRUE]
           /\ nextCalls' = IF load.state = "rejected"
                           THEN <<load.error, NoError>>
                           ELSE <<NoError>>
           /\ pc' = "handler"
    /\ load' = NoLoad
    /\ UNCHANGED <<pair, caller, opts, now, jar, nreq, cs, ends, cbq, thrown, ret>>

\* the handler resumes after `await req.cookieSession.loadCookieData()`
MiddlewareResume ==
    /\ pc = "loading"
    /\ load.state \in {"resolved", "rejected"}
    /\ IF load.state = "rejected"
       THEN /\ nextCalls' = Append(nextCalls, load.error)
            /\ pc' = "errored"
            /\ UNCHANGED <<req, res, heap, uuids>>
       ELSE LET c == createSessionObject(req, cs, heap, uuids)
            IN  /\ c.uuids <= MaxUuid
                /\ req' = c.req
                /\ heap' = c.heap
                /\ uuids' = c.uuids
                /\ res' = [res EXCEPT !.patched = TRUE]
                /\ nextCalls' = Append(nextCalls, NoError)
                /\ pc' = "handler"
    /\ load' = NoLoad
    /\ UNCHANGED <<pair, caller, opts, now, jar, nreq, cs, ends, cbq, thrown, ret>>

----------------------------------------------------------------------------
(* The request handler, which next() starts: what it does with             *)
(* req.session, and then with res.  Ending the response is the last thing  *)
(* it does.                                                                *)

\* req.session[k] = v
HandlerSet(k, v) ==
    /\ pc = "handler"
    /\ ends = <<>>
    /\ heap' = [heap EXCEPT ![req.session] = Set(@, k, v)]
    /\ ret' = [op |-> "set", key |-> k, val |-> v]
    /\ UNCHANGED <<pair, caller, opts, now, uuids, jar, nreq, pc, req, res, cs, load, ends,
                   nextCalls, cbq, thrown>>

\* req.session[k]
HandlerGet(k) ==
    /\ pc = "handler"
    /\ ends = <<>>
    /\ \E r \in {Get(cs, heap[req.session], k)} :
           /\ heap' = [heap EXCEPT ![req.session] = r.obj]
           /\ ret' = [op |-> "get", key |-> k, val |-> r.value]
    /\ UNCHANGED <<pair, caller, opts, now, uuids, jar, nreq, pc, req, res, cs, load, ends,
                   nextCalls, cbq, thrown>>

\* delete req.session[k]
HandlerDelete(k) ==
    /\ pc = "handler"
    /\ ends = <<>>
    /\ k \in DOMAIN heap[req.session].props
    /\ heap' = [heap EXCEPT ![req.session].props = DeleteProp(@, k)]
    /\ ret' = [op |-> "delete", key |-> k, val |-> Undefined]
    /\ UNCHANGED <<pair, caller, opts, now, uuids, jar, nreq, pc, req, res, cs, load, ends,
                   nextCalls, cbq, thrown>>

\* callbackify(fn, cb), fn having run without an error: cb(error) is called
\* after the await
callbackify(q, cb) == IF cb THEN Append(q, [error |-> NoError]) ELSE q

\* req.session.destroy(cb), .regenerate(cb), .reload(cb), .save(cb), .touch(cb)
HandlerCall(i, cb) ==
    /\ pc = "handler"
    /\ ends = <<>>
    /\ cb => Len(cbq) < MaxCallbacks
    /\ \E g \in {Get(cs, heap[req.session], OpNames[i])} :
       \E h1 \in {[heap EXCEPT ![req.session] = g.obj]} :
           IF g.value.t # "function"
           THEN /\ heap' = h1
                /\ ret' = [op |-> "TypeError", key |-> OpNames[i], val |-> g.value]
                /\ UNCHANGED <<cs, req, uuids, cbq>>
           ELSE /\ ret' = [op |-> "call", key |-> OpNames[i], val |-> g.value]
                /\ cbq' = callbackify(cbq, cb)
                /\ IF g.value.v \in {1, 2}
                   THEN \E r \in {regenerate(cs, h1, g.value.v = 2, uuids)} :
                        \E c \in {createSessionObject(req, r.this, r.heap, r.uuids)} :
                            /\ c.uuids <= MaxUuid
                            /\ cs' = r.this
                            /\ req' = c.req
                            /\ heap' = Collect(c.heap, {r.this.data, c.req.session})
                            /\ uuids' = c.uuids
                   ELSE /\ heap' = h1
                        /\ UNCHANGED <<cs, req, uuids>>
    /\ UNCHANGED <<pair, caller, opts, now, jar, nreq, pc, res, load, ends, nextCalls, thrown>>

\* callbackify resumes after `await fn()` and calls cb(error)
RunCallback ==
    /\ cbq # <<>>
    /\ ret' = [op |-> "callback", key |-> Head(cbq).error, val |-> Undefined]
    /\ cbq' = Tail(cbq)
    /\ UNCHANGED <<pair, caller, opts, now, uuids, jar, nreq, pc, req, res, cs, heap, load,
                   ends, nextCalls, thrown>>

\* res.end(chunk, encoding, cb), which ends a response once: the intercepted
\* end runs saveCookieData() up to its await, `await this.encryptData()`; the
\* original end runs at once when res.end was not intercepted
ResEnd(args) ==
    /\ pc \in {"handler", "errored"}
    /\ ends = <<>> /\ res.endCalls = <<>>
    /\ IF res.patched
       THEN \E e \in {encryptData(cs, heap, now)} :
                /\ heap' = e.heap
                /\ ends' = Append(ends, [args |-> args, token |-> e.token,
                                         stage |-> "saving"])
                /\ res' = res
       ELSE /\ res' = [res EXCEPT !.endCalls = Append(@, args)]
            /\ UNCHANGED <<heap, ends>>
    /\ ret' = [op |-> "end", key |-> "", val |-> Undefined]
    /\ UNCHANGED <<pair, caller, opts, now, uuids, jar, nreq, pc, req, cs, load, nextCalls,
                   cbq, thrown>>

\* saveCookieData() resumes and calls this.cookies.set(..), which throws when
\* the response cannot take the header
EndSave(i, ok) ==
    /\ i \in DOMAIN ends
    /\ ends[i].stage = "saving"
    /\ \A j \in 1..(i - 1) : ends[j].stage # "saving"
    /\ IF ok
       THEN /\ res' = cookiesSet(res, cs.opts["name"], ends[i].token, cs.opts["cookie"])
            /\ ends' = [ends EXCEPT ![i].stage = "saved"]
       ELSE /\ ends' = [ends EXCEPT ![i].stage = "rejected"]
            /\ res' = res
    /\ UNCHANGED <<pair, caller, opts, now, uuids, jar, nreq, pc, req, cs, heap, load,
                   nextCalls, cbq, thrown, ret>>

\* the intercepted end resumes after `await req.cookieSession.saveCookieData()`
\* and calls end.call(res, chunk, encoding, cb)
EndCall(i) ==
    /\ i \in DOMAIN ends
    /\ ends[i].stage = "saved"
    /\ res' = [res EXCEPT !.endCalls = Append(@, ends[i].args)]
    /\ ends' = [ends EXCEPT ![i].stage = "ended"]
    /\ UNCHANGED <<pair, caller, opts, now, uuids, jar, nreq, pc, req, cs, heap, load,
                   nextCalls, cbq, thrown, ret>>

\* the request is over: the response was sent, or it never will be.  The
\* browser keeps the last cookie of a response it received.
Finish ==
    /\ pc \in {"handler", "errored", "rejected"}
    /\ \A i \in DOMAIN ends : ends[i].stage \in {"ended", "rejected"}
    /\ cbq = <<>>
    /\ \/ res.endCalls # <<>>
       \/ pc = "rejected"
       \/ \E i \in DOMAIN ends : ends[i].stage = "rejected"
    /\ jar' = IF res.endCalls # <<>> /\ res.setCookie # <<>>
              THEN LET c == res.setCookie[Len(res.setCookie)]
                   IN  [name |-> c.name, value |-> c.value]
              ELSE jar
    /\ pc' = "idle"
    /\ req' = NoReq
    /\ res' = NoRes
    /\ cs' = NoThis
    /\ heap' = EmptyHeap
    /\ load' = NoLoad
    /\ ends' = <<>>
    /\ nextCalls' = <<>>
    /\ thrown' = NoError
    /\ ret' = NoRet
    /\ UNCHANGED <<pair, caller, opts, now, uuids, nreq, cbq>>

\* a second passes, between two requests or two calls
Tick ==
    /\ pc \in {"idle", "constructed"}
    /\ now < MaxTime
    /\ now' = now + 1
    /\ UNCHANGED <<pair, caller, opts, uuids, jar, nreq, pc, req, res, cs, heap, load, ends,
                   nextCalls, cbq, thrown, ret>>

----------------------------------------------------------------------------
(* Spec: the middleware handling one request.                              *)

Secret == Str(MinSecretLen, "s")

\* the options the application is set up with
Options ==
    {Spread(s, Spread(f, d)) :
        s \in {EmptyObject, [secret |-> Str(MinSecretLen - 1, "s")], [secret |-> Secret]},
        f \in {EmptyObject, [flash |-> FALSE], [flash |-> TRUE]},
        d \in {EmptyObject}}

\* a slot no request has come to, and the two of them
NoSlot == [pc |-> "idle", req |-> NoReq, res |-> NoRes, cs |-> NoThis,
           load |-> NoLoad, ret |-> NoRet]
Slots == {1, 2}
NoPair == [i \in Slots |-> NoSlot]

NoCaller == [data |-> NoAddr, token |-> NoCookie,
             decoded |-> [of |-> NoCookie, at |-> 0, value |-> EmptyObject]]

Idle ==
    /\ now = 0
    /\ uuids = 0
    /\ jar = NoHeader
    /\ nreq = 0
    /\ pc = "idle"
    /\ req = NoReq
    /\ res = NoRes
    /\ cs = NoThis
    /\ heap = EmptyHeap
    /\ load = NoLoad
    /\ ends = <<>>
    /\ nextCalls = <<>>
    /\ cbq = <<>>
    /\ thrown = NoError
    /\ ret = NoRet
    /\ caller = NoCaller
    /\ pair = NoPair

Init ==
    /\ opts \in Options
    /\ Idle

Next ==
    \/ \E c \in InboundCookies, h \in BOOLEAN, d \in BOOLEAN : Middleware(c, h, d)
    \/ LoadResume
    \/ MiddlewareResume
    \/ \E k \in UserKeys, v \in Vals : HandlerSet(k, v)
    \/ \E k \in {"id"} \cup UserKeys : HandlerGet(k)
    \/ \E k \in UserKeys : HandlerDelete(k)
    \/ \E i \in DOMAIN OpNames, cb \in BOOLEAN : HandlerCall(i, cb)
    \/ RunCallback
    \/ \E a \in EndArgs : ResEnd(a)
    \/ \E i \in DOMAIN ends, ok \in BOOLEAN : EndSave(i, ok)
    \/ \E i \in DOMAIN ends : EndCall(i)

Spec == Init /\ [][Next]_vars

\* Spec, with what the event loop sees to: a promise that is awaited is
\* settled, and the code waiting on it resumes
SpecLive ==
    /\ Spec
    /\ WF_vars(LoadResume)
    /\ WF_vars(MiddlewareResume)
    /\ WF_vars(RunCallback)
    /\ WF_vars(\E i \in DOMAIN ends, ok \in BOOLEAN : EndSave(i, ok))
    /\ WF_vars(\E i \in DOMAIN ends : EndCall(i))

----------------------------------------------------------------------------
(* SpecCtor: a caller constructing a controller itself, with every shape   *)
(* of options, and reading its sessionId.                                  *)

\* new CookieSession(opts, req, res)
Construct ==
    /\ pc = "idle"
    /\ \E c \in {CookieSession(opts, heap)} :
           /\ opts' = c.caller
           /\ cs' = c.this
           /\ heap' = c.heap
           /\ thrown' = c.thrown
           /\ pc' = IF c.thrown # NoError THEN "rejected" ELSE "constructed"
    /\ UNCHANGED <<pair, caller, now, uuids, jar, nreq, req, res, load, ends, nextCalls,
                   cbq, ret>>

\* obj.sessionId
ReadSessionId ==
    /\ pc = "constructed"
    /\ \E r \in {sessionId(cs, heap, uuids)} :
           /\ r.uuids <= MaxUuid
           /\ heap' = r.heap
           /\ uuids' = r.uuids
           /\ ret' = [op |-> "sessionId", key |-> "id", val |-> r.value]
    /\ UNCHANGED <<pair, caller, opts, now, jar, nreq, pc, req, res, cs, load, ends,
                   nextCalls, cbq, thrown>>

\* the options a caller may pass: each field supplied or left out
CtorOptions ==
    {Spread(s, Spread(d, Spread(f, Spread(n, c)))) :
        s \in {EmptyObject} \cup {[secret |-> Str(l, "s")] : l \in 0..MaxSecretLen},
        d \in {EmptyObject, [duration |-> 1500]},
        f \in {EmptyObject, [flash |-> FALSE], [flash |-> TRUE]},
        n \in {EmptyObject, [name |-> "sid"]},
        c \in {EmptyObject} \cup
              {[cookie |-> a] : a \in {EmptyObject, [path |-> "/app"], [secure |-> TRUE],
                                       [path |-> "/app", secure |-> TRUE]}}}

InitCtor ==
    /\ opts \in CtorOptions
    /\ Idle

NextCtor ==
    \/ Construct
    \/ ReadSessionId

SpecCtor == InitCtor /\ [][NextCtor]_vars

----------------------------------------------------------------------------
(* SpecCodec: a caller using the codec of a controller itself.  It gives   *)
(* the controller a data map, encodes it, and decodes the token, or a      *)
(* token from elsewhere, then or later.                                    *)

\* the data maps a caller may hand over
DataMaps ==
    {Spread(i, Spread(a, b)) :
        i \in {EmptyObject, [id |-> Uuid(0)]},
        a \in {EmptyObject} \cup {[date |-> v] : v \in Vals},
        b \in {EmptyObject} \cup {[data2 |-> v] : v \in Vals}}

\* obj.data = { ...D }, before anything was encoded
AssignData(D) ==
    /\ pc = "constructed"
    /\ caller.token.kind = "none"
    /\ \E a \in {Alloc(heap)} :
           /\ cs' = [cs EXCEPT !.data = a]
           /\ heap' = Collect(NewObject(heap, a, Spread(EmptyObject, D)), {a})
    /\ UNCHANGED <<pair, caller, opts, now, uuids, jar, nreq, pc, req, res, load, ends,
                   nextCalls, cbq, thrown, ret>>

\* await obj.loadCookieData(), the request carrying no cookie: the data map
\* is the one it was, behind the Proxy
LoadNoCookie ==
    /\ pc = "constructed"
    /\ caller.token.kind = "none"
    /\ req.cookie = NoHeader
    /\ \E l \in {loadCookieDataStart(cs, heap, req, now)} :
           /\ l.load.state = "resolved"
           /\ heap' = l.heap
    /\ UNCHANGED <<pair, caller, opts, now, uuids, jar, nreq, pc, req, res, cs, load, ends,
                   nextCalls, cbq, thrown, ret>>

\* token = await obj.encryptData(): the caller keeps the token, and the data
\* map it had encoded
Encrypt ==
    /\ pc = "constructed"
    /\ \E e \in {encryptData(cs, heap, now)} :
           /\ heap' = e.heap
           /\ caller' = [NoCaller EXCEPT !.data = heap[cs.data].props,
                                         !.token = e.token]
           /\ ret' = [op |-> "encryptData", key |-> "", val |-> Undefined]
    /\ UNCHANGED <<pair, opts, now, uuids, jar, nreq, pc, req, res, cs, load, ends,
                   nextCalls, cbq, thrown>>

\* the tokens a caller may have decoded
Tokens ==
    {Garbage, Forged(now)}
        \cup (IF caller.token.kind = "jwt"
              THEN {caller.token, Tampered(caller.token)}
              ELSE {})

\* await obj.decryptData(token)
Decrypt(token) ==
    /\ pc = "constructed"
    /\ \E d \in {decryptData(cs, token, now)} :
           /\ thrown' = d.thrown
           /\ caller' = [caller EXCEPT !.decoded =
                            [of |-> token, at |-> now, value |-> d.value]]
           /\ ret' = [op |-> "decryptData", key |-> d.thrown, val |-> Undefined]
    /\ UNCHANGED <<pair, opts, now, uuids, jar, nreq, pc, req, res, cs, heap, load, ends,
                   nextCalls, cbq>>

\* the options of a caller of the codec
CodecOptions ==
    {Spread(s, Spread(f, d)) :
        s \in {[secret |-> Secret], [secret |-> Str(MaxSecretLen, "t")]},
        f \in {EmptyObject, [flash |-> TRUE]},
        d \in {EmptyObject, [duration |-> 400], [duration |-> 1499],
               [duration |-> 2500]}}

InitCodec ==
    /\ opts \in CodecOptions
    /\ Idle

NextCodec ==
    \/ Construct
    \/ \E D \in DataMaps : AssignData(D)
    \/ LoadNoCookie
    \/ Encrypt
    \/ \E t \in Tokens : Decrypt(t)
    \/ Tick

SpecCodec == InitCodec /\ [][NextCodec]_vars

----------------------------------------------------------------------------
(* SpecData: a caller working on the data map of a controller itself: it   *)
(* writes keys, reads the sessionId, regenerates, and saves.  It writes    *)
(* no key once it has saved.                                               *)

MaxSaves == 2        \* saveCookieData() is called at most MaxSaves times

\* obj.data[key] = value
SetData(k, v) ==
    /\ pc = "constructed"
    /\ heap' = [heap EXCEPT ![cs.data] = Set(@, k, v)]
    /\ ret' = [op |-> "set", key |-> k, val |-> v]
    /\ UNCHANGED <<pair, caller, opts, now, uuids, jar, nreq, pc, req, res, cs, load, ends,
                   nextCalls, cbq, thrown>>

\* obj.regenerate(newId); obj.regenerate() is obj.regenerate(false)
Regenerate(newId) ==
    /\ pc = "constructed"
    /\ \E r \in {regenerate(cs, heap, newId, uuids)} :
           /\ r.uuids <= MaxUuid
           /\ cs' = r.this
           /\ heap' = Collect(r.heap, {r.this.data})
           /\ uuids' = r.uuids
    /\ ret' = [op |-> "regenerate", key |-> IF newId THEN "true" ELSE "false",
               val |-> Undefined]
    /\ UNCHANGED <<pair, caller, opts, now, jar, nreq, pc, req, res, load, ends, nextCalls,
                   cbq, thrown>>

\* await obj.saveCookieData()
Save ==
    /\ pc = "constructed"
    /\ Len(res.setCookie) < MaxSaves
    /\ \E e \in {encryptData(cs, heap, now)} :
           /\ heap' = e.heap
           /\ res' = cookiesSet(res, cs.opts["name"], e.token, cs.opts["cookie"])
    /\ ret' = [op |-> "saveCookieData", key |-> "", val |-> Undefined]
    /\ UNCHANGED <<pair, caller, opts, now, uuids, jar, nreq, pc, req, cs, load, ends,
                   nextCalls, cbq, thrown>>

InitData ==
    /\ opts \in Options
    /\ Idle

NextData ==
    \/ Construct
    \/ \E k \in UserKeys, v \in Vals : res.setCookie = <<>> /\ SetData(k, v)
    \/ LoadNoCookie
    \/ ReadSessionId
    \/ \E newId \in BOOLEAN : Regenerate(newId)
    \/ Save

SpecData == InitData /\ [][NextData]_vars

----------------------------------------------------------------------------
(* Properties of construction, under SpecCtor.                             *)

\* C1: constructing a controller with a secret that is absent or of any
\* length 0..15 fails with 'Secret must be at least 16 characters long' and
\* leaves nothing behind, neither cookie transport nor data map; with a
\* secret of 16 characters or more construction succeeds, with both.
C1_SecretValidated ==
    pc \in {"constructed", "rejected"} =>
        IF ~Has(opts, "secret") \/ Len(opts["secret"]) \in 0..15
        THEN /\ pc = "rejected"
             /\ thrown = "Secret must be at least 16 characters long"
             /\ ~cs.cookies
             /\ cs.data = NoAddr
             /\ heap = EmptyHeap
        ELSE /\ pc = "constructed"
             /\ thrown = NoError
             /\ cs.cookies
             /\ cs.data \in DOMAIN heap

\* a secret of 15 characters was refused
C1_Witness ==
    /\ pc = "rejected"
    /\ Has(opts, "secret")
    /\ Len(opts["secret"]) = 15
    /\ thrown = "Secret must be at least 16 characters long"

\* C2: with a valid secret, each of duration, flash, name and cookie.path of
\* the resolved options is the value supplied when one is supplied, and
\* 86400000, false, 'session' and '/' when it is left out, whatever the other
\* fields are; every other cookie attribute supplied is in the resolved
\* cookie options unchanged, and nothing else is.
C2_DefaultsApplied ==
    [][(pc = "idle" /\ pc' = "constructed") =>
        LET supplied == IF Has(opts, "cookie") THEN opts["cookie"] ELSE EmptyObject
            resolved == cs'.opts
        IN  /\ resolved["duration"] =
                   IF Has(opts, "duration") THEN opts["duration"] ELSE 86400000
            /\ resolved["flash"] = IF Has(opts, "flash") THEN opts["flash"] ELSE FALSE
            /\ resolved["name"] = IF Has(opts, "name") THEN opts["name"] ELSE "session"
            /\ resolved["cookie"]["path"] =
                   IF Has(supplied, "path") THEN supplied["path"] ELSE "/"
            /\ DOMAIN resolved["cookie"] = (DOMAIN supplied) \cup {"path"}
            /\ \A k \in (DOMAIN supplied) \ {"path"} :
                   resolved["cookie"][k] = supplied[k]
            /\ resolved["secret"] = opts["secret"]]_vars

\* duration and path were defaulted while name and a cookie attribute were
\* supplied
C2_Witness ==
    /\ pc = "constructed"
    /\ ~Has(opts, "duration") /\ cs.opts["duration"] = 86400000
    /\ Has(opts, "name") /\ cs.opts["name"] = "sid"
    /\ ~Has(opts["cookie"], "path") /\ cs.opts["cookie"]["path"] = "/"
    /\ Has(opts["cookie"], "secure") /\ cs.opts["cookie"]["secure"] = TRUE

----------------------------------------------------------------------------
(* Properties of the data store, under Spec: the handler's reads of        *)
(* req.session.                                                            *)

\* C3: with flash=true, a read of a key other than id returns the value the
\* key has at that time (absent when it has none, as after an earlier read
\* with no write since) and leaves the data map without the key; a read of
\* id returns it and leaves it in place.
C3_FlashReadOnce ==
    [][(ret'.op = "get" /\ Has(opts, "flash") /\ opts["flash"] = TRUE) =>
        LET k == ret'.key
            before == heap[req.session].props
            after == heap'[req.session].props
        IN  /\ ret'.val = IF Has(before, k) THEN before[k] ELSE Undefined
            /\ k # "id" => ~Has(after, k)
            /\ k = "id" => Has(after, "id") /\ after["id"] = before["id"]]_vars

\* a key written was read with its value and is gone
C3_Witness ==
    /\ Has(opts, "flash") /\ opts["flash"] = TRUE
    /\ ret = [op |-> "get", key |-> "date", val |-> Json(2)]
    /\ ~Has(heap[req.session].props, "date")
    /\ Has(heap[req.session].props, "id")

\* C4: with flash=false or flash left out, a read of any key returns the
\* value the key has and changes nothing of the data map, so that repeated
\* reads return the same value and no read removes a key.
C4_ReadsArePure ==
    [][(ret'.op = "get" /\ (~Has(opts, "flash") \/ opts["flash"] = FALSE)) =>
        LET k == ret'.key
            before == heap[req.session].props
        IN  /\ ret'.val = IF Has(before, k) THEN before[k] ELSE Undefined
            /\ heap' = heap]_vars

\* with flash left out a key was read with its value and is still there
C4_Witness ==
    /\ ~Has(opts, "flash")
    /\ ret = [op |-> "get", key |-> "date", val |-> Json(2)]
    /\ Has(heap[req.session].props, "date")
    /\ heap[req.session].props["date"] = Json(2)

----------------------------------------------------------------------------
(* Properties of the codec, under SpecCodec.                               *)

\* C5: whatever data map D of JSON values was encoded, and under whichever
\* valid secret, decoding the token so produced with the same controller,
\* at a time before the token's expiry, gives a map equal to D.
C5_RoundTrip ==
    (/\ caller.token.kind = "jwt"
     /\ caller.decoded.of = caller.token
     /\ caller.decoded.at < caller.token.body.exp)
        => caller.decoded.value = caller.data

\* under flash, a map with two keys and an id came back a second after it
\* was encoded
C5_Witness ==
    /\ Has(opts, "flash") /\ opts["flash"] = TRUE
    /\ caller.token.kind = "jwt"
    /\ caller.decoded.of = caller.token
    /\ caller.decoded.at = caller.token.body.iat + 1
    /\ caller.decoded.at < caller.token.body.exp
    /\ DOMAIN caller.data = {"id", "date", "data2"}
    /\ caller.decoded.value = caller.data

----------------------------------------------------------------------------
(* Properties of the middleware, under Spec.                               *)

\* C6: decryptData raises nothing.  For a request whose cookie fails
\* verification under the configured secret, being malformed, signed with
\* another key or over another payload, or expired, it resolves to an empty
\* map: loadCookieData does not fail, next is called with no error, and
\* the handler gets what a request with no session gets, a new identity and
\* no data.
C6_FailOpen ==
    [][LET token == req'.cookie.value
           fails == \/ token.kind = "garbage"
                    \/ /\ token.kind = "jwt"
                       /\ \/ token.sig.key # opts'["secret"]
                          \/ token.sig.body # token.body
                          \/ now' >= token.body.exp
       IN  (/\ req'.cookieSession
            /\ req'.headers
            /\ req'.cookie.name = cs'.opts["name"]
            /\ fails)
               => /\ load'.state # "rejected"
                  /\ load'.state = "decrypted" => load'.cookieData = EmptyObject
                  /\ pc' # "errored"
                  /\ nextCalls' \in {<<>>, <<NoError>>}
                  /\ (pc = "loading" /\ pc' = "handler") =>
                         /\ nextCalls' = <<NoError>>
                         /\ DOMAIN heap'[req'.session].props =
                                {"id", "destroy", "regenerate", "reload", "save", "touch"}
                         /\ uuids' = uuids + 1
                         /\ req'.sessionID = Uuid(uuids')]_vars

\* the handler was started for a request with an expired cookie
C6_Witness ==
    /\ pc = "handler"
    /\ req.cookie.value.kind = "jwt"
    /\ req.cookie.value.sig.key = opts["secret"]
    /\ now >= req.cookie.value.body.exp
    /\ nextCalls = <<NoError>>
    /\ ret = NoRet
    /\ ~Has(heap[req.session].props, "date")

\* C7: at the step that invokes the intercepted res.end, the token made for
\* the cookie decodes to the data map as it stands: the id, equal to
\* req.sessionID, and each key of user data present, with its value (the one
\* just written, if the handler's last act was a write; not the one just
\* removed); and that token is the value of the cookie the response gets.
C7_CookieReflectsData ==
    [][/\ (ends = <<>> /\ ends' # <<>>) =>
              LET D == heap[req.session].props
                  J == {k \in DOMAIN D : D[k].t \in {"json", "uuid"}}
                  decoded == decryptData(cs', ends'[1].token, now').value
              IN  /\ decoded = [k \in J |-> D[k]]
                  /\ Has(decoded, "id") /\ decoded["id"] = req.sessionID
                  /\ ret.op = "set" =>
                         Has(decoded, ret.key) /\ decoded[ret.key] = ret.val
                  /\ ret.op = "delete" => ~Has(decoded, ret.key)
       /\ \A i \in DOMAIN res'.setCookie :
              /\ ends' # <<>>
              /\ res'.setCookie[i].name = cs'.opts["name"]
              /\ res'.setCookie[i].value = ends'[1].token]_vars

\* under flash, a response ended with a cookie holding the id and the one
\* key still in the data map
C7_Witness ==
    /\ Has(opts, "flash") /\ opts["flash"] = TRUE
    /\ ends # <<>> /\ ends[1].stage = "ended"
    /\ Len(res.setCookie) = 1
    /\ JSONparse(res.setCookie[1].value.body.session) =
           [id |-> req.sessionID, data2 |-> Json(2)]

\* C8: every invocation of the intercepted res.end(chunk, encoding, cb) has
\* saveCookieData called and completed, and then the original end invoked
\* exactly once with the same chunk, encoding and callback; the original end
\* never runs before the save.
C8_SaveThenEnd ==
    /\ res.patched =>
           \A i \in DOMAIN res.endCalls :
               /\ i = 1
               /\ ends # <<>>
               /\ ends[1].stage = "ended"
               /\ res.endCalls[i] = ends[1].args
               /\ Len(res.setCookie) = 1
    /\ \A i \in DOMAIN ends :
           ends[i].stage \in {"ended", "rejected"} =>
               /\ Len(res.setCookie) = 1
               /\ res.endCalls = <<ends[i].args>>

\* C9: next() is called, with no error, at a step before which
\* loadCookieData has completed and after which the session is attached to
\* the request; the handler never runs on a request with no session loaded.
C9_NextAfterLoad ==
    [][/\ (nextCalls' # nextCalls /\ nextCalls'[Len(nextCalls')] = NoError) =>
              /\ load.state = "resolved"
              /\ heap[cs.data].proxy
              /\ req'.session # NoAddr
              /\ req'.session = cs'.data
              /\ req'.sessionID # Undefined
       /\ pc' = "handler" =>
              /\ nextCalls' = <<NoError>>
              /\ req'.session # NoAddr]_vars

\* the handler was started with the data of the request's cookie loaded
C9_Witness ==
    /\ pc = "handler"
    /\ nextCalls = <<NoError>>
    /\ ret = NoRet
    /\ req.cookie.value.kind = "jwt"
    /\ Has(heap[req.session].props, "date")
    /\ heap[req.session].props["date"] = Json(1)

\* C10: at the step that calls next(), for a request that came with no
\* session, options that are valid and a load that succeeded:
\* req.sessionID is the identity, the one loaded when there is one and a new
\* one otherwise; req.session is the controller's data map, with id equal to
\* req.sessionID; and destroy, regenerate, reload, save and touch are
\* functions on req.session.
C10_SessionAttached ==
    [][(pc = "loading" /\ pc' = "handler") =>
        LET loaded == heap[cs.data].props
            session == heap'[req'.session].props
        IN  /\ req.session = NoAddr
            /\ req'.session = cs'.data
            /\ req'.sessionID =
                   IF Has(loaded, "id") THEN loaded["id"] ELSE Uuid(uuids + 1)
            /\ Has(session, "id") /\ session["id"] = req'.sessionID
            /\ \A op \in {"destroy", "regenerate", "reload", "save", "touch"} :
                   Has(session, op) /\ session[op].t = "function"]_vars

\* the handler was started for a request with no cookie, under flash
C10_Witness ==
    /\ pc = "handler"
    /\ ret = NoRet
    /\ req.cookie = NoHeader
    /\ Has(opts, "flash") /\ opts["flash"] = TRUE
    /\ req.sessionID = Uuid(1)
    /\ heap[req.session].props["id"] = Uuid(1)
    /\ heap[req.session].props["touch"].t = "function"

\* C11: a request that comes with a session already on it gets next called
\* once, with 'Cannot redeclare session', and nothing more, whatever the
\* options are: no controller is constructed (nothing is thrown, the options
\* are not touched), the session it came with is as it was, no cookie is
\* read, and res.end is the original one, which a later res.end calls
\* directly.
C11_DuplicateSession ==
    (req.session # NoAddr /\ pc # "handler") =>
        /\ pc = "errored"
        /\ nextCalls = <<"Cannot redeclare session">>
        /\ cs = NoThis
        /\ thrown = NoError
        /\ ~Has(opts, "cookie")
        /\ ~req.cookieSession
        /\ req.sessionID = Undefined
        /\ DOMAIN heap = {req.session}
        /\ heap[req.session] = [props |-> [date |-> Json(1)], proxy |-> FALSE]
        /\ load = NoLoad
        /\ ~res.patched
        /\ ends = <<>>
        /\ res.setCookie = <<>>

\* with no secret in the options and no headers to read a cookie from, the
\* duplicate was reported and the response ended by the original end
C11_Witness ==
    /\ req.session # NoAddr
    /\ pc = "errored"
    /\ ~Has(opts, "secret")
    /\ ~req.headers
    /\ nextCalls = <<"Cannot redeclare session">>
    /\ Len(res.endCalls) = 1

\* C12: when loadCookieData fails, the middleware calls next once, with the
\* error the load failed with, and stops: neither session nor sessionID is
\* put on the request and res.end is not replaced.  From then on next is not
\* called again, nothing is saved, and a res.end is the original end,
\* called directly.
C12_LoadFailure ==
    [][/\ (pc = "loading" /\ load.state = "rejected" /\ pc' # "loading") =>
              /\ pc' = "errored"
              /\ nextCalls' = <<load.error>>
              /\ load.error # NoError
              /\ req' = req
              /\ req'.session = NoAddr
              /\ req'.sessionID = Undefined
              /\ res' = res
              /\ ~res'.patched
       /\ (pc = "errored" /\ req.cookieSession) =>
              /\ nextCalls' = nextCalls
              /\ req' = req
              /\ ends' = <<>>
              /\ res'.setCookie = <<>>
              /\ ~res'.patched
              /\ ret'.op = "end" => Len(res'.endCalls) = 1]_vars

\* the load failed, next got the error and the response was ended
C12_Witness ==
    /\ pc = "errored"
    /\ req.cookieSession
    /\ ~req.headers
    /\ nextCalls = <<"TypeError">>
    /\ req.session = NoAddr
    /\ Len(res.endCalls) = 1
    /\ res.setCookie = <<>>

----------------------------------------------------------------------------
(* Properties of the data map, under SpecData.                             *)

\* C13: regenerate(false), which regenerate() is, leaves a data map that
\* holds the id and nothing else, the id being the one the map held before
\* the call, or a new one, made by the call, when it held none.
C13_RegenerateKeepsId ==
    [][(ret'.op = "regenerate" /\ ret'.key = "false") =>
        LET before == heap[cs.data].props
            after == heap'[cs'.data].props
        IN  /\ DOMAIN after = {"id"}
            /\ IF Has(before, "id")
               THEN after["id"] = before["id"] /\ uuids' = uuids
               ELSE after["id"] = Uuid(uuids + 1) /\ uuids' = uuids + 1]_vars

\* a map with an id and a key of data was regenerated: the id is the same
\* and the key is gone
C13_Witness ==
    /\ pc = "constructed"
    /\ ret.op = "regenerate" /\ ret.key = "false"
    /\ uuids = 1
    /\ heap[cs.data].props = [id |-> Uuid(1)]
    /\ heap[cs.data].proxy

\* C14: regenerate(true) leaves a data map that holds the id and nothing
\* else, the id being an identifier made by the call and other than the one
\* the map held before.
C14_RegenerateNewId ==
    [][(ret'.op = "regenerate" /\ ret'.key = "true") =>
        LET before == heap[cs.data].props
            after == heap'[cs'.data].props
        IN  /\ DOMAIN after = {"id"}
            /\ uuids' = uuids + 1
            /\ after["id"] = Uuid(uuids')
            /\ Has(before, "id") => after["id"] # before["id"]]_vars

\* a map whose id was the first identifier has the second one
C14_Witness ==
    /\ pc = "constructed"
    /\ ret.op = "regenerate" /\ ret.key = "true"
    /\ uuids = 2
    /\ heap[cs.data].props = [id |-> Uuid(2)]

\* C20: saveCookieData may be called again and again: a call leaves the data
\* map as it was, and a call that comes right after another, the data map
\* not written in between, encodes the session payload the other encoded;
\* with flash true as with flash false.
C20_SaveIdempotent ==
    [][(pc = "constructed" /\ Len(res'.setCookie) = Len(res.setCookie) + 1) =>
        /\ heap' = heap
        /\ ret.op = "saveCookieData" =>
               res'.setCookie[Len(res'.setCookie)].value.body.session =
                   res.setCookie[Len(res.setCookie)].value.body.session]_vars

----------------------------------------------------------------------------
(* SpecSeq: a browser and the application, over consecutive requests.  The *)
(* browser sends the cookie it holds, the last one a response gave it, or  *)
(* none; the handler writes and reads keys of req.session, may have the    *)
(* session regenerated, and ends the response.                             *)

\* a session that lasts a second, and one that lasts a day
SeqOptions ==
    {Spread([secret |-> Secret], Spread(f, d)) :
        f \in {EmptyObject, [flash |-> TRUE]},
        d \in {EmptyObject, [duration |-> 1000]}}

InitSeq ==
    /\ opts \in SeqOptions
    /\ Idle

NextSeq ==
    \/ \E c \in {NoHeader, jar} : Middleware(c, TRUE, FALSE)
    \/ LoadResume
    \/ MiddlewareResume
    \/ \E k \in UserKeys, v \in Vals : ret.op \in {"", "set"} /\ HandlerSet(k, v)
    \/ \E k \in {"id"} \cup UserKeys : ret.op \in {"", "set", "get"} /\ HandlerGet(k)
    \/ \E i \in {1, 2} : ret = NoRet /\ HandlerCall(i, FALSE)
    \/ ResEnd([chunk |-> "body", encoding |-> "utf8", cb |-> 1])
    \/ \E i \in DOMAIN ends, ok \in BOOLEAN : EndSave(i, ok)
    \/ \E i \in DOMAIN ends : EndCall(i)
    \/ Finish
    \/ Tick

SpecSeq == InitSeq /\ [][NextSeq]_vars

----------------------------------------------------------------------------
(* Properties of consecutive requests, under SpecSeq.                      *)

\* the keys of user data of a data map, with their values
UserData(o) == [k \in (DOMAIN o) \cap UserKeys |-> o[k]]

\* C15: the cookie a response delivers carries, under id, the req.sessionID
\* the request has when it completes; and a request that presents the cookie
\* the browser was given, before it has expired, is attached a req.sessionID
\* equal to the id in that cookie, with no identifier generated.  This with
\* flash true as with flash left out.
C15_SameIdentity ==
    [][/\ (pc = "handler" /\ pc' = "idle" /\ res.endCalls # <<>>) =>
            /\ jar'.value.kind = "jwt"
            /\ LET s == JSONparse(jar'.value.body.session)
               IN  Has(s, "id") /\ s["id"] = req.sessionID
       /\ (/\ pc = "loading" /\ pc' = "handler"
           /\ req.cookie = jar /\ jar.value.kind = "jwt"
           /\ now < jar.value.body.exp) =>
            /\ LET s == JSONparse(jar.value.body.session)
               IN  Has(s, "id") /\ req'.sessionID = s["id"]
            /\ uuids' = uuids]_vars

\* with flash true, a second request presented the cookie of the first, a
\* second after it was written, and has the identity that cookie carries
C15_Witness ==
    /\ Has(opts, "flash") /\ opts["flash"] = TRUE
    /\ nreq = 2 /\ pc = "handler"
    /\ req.cookie = jar /\ jar.value.kind = "jwt"
    /\ jar.value.body.iat < now /\ now < jar.value.body.exp
    /\ req.sessionID = JSONparse(jar.value.body.session)["id"]
    /\ uuids = 1

\* C16: with flash true, step by step over consecutive requests: a read of
\* a key of user data leaves the session without the key and the other keys
\* as they were; the cookie written when the response ends carries the keys
\* of user data the session then has, with their values, so not a key the
\* handler read last; the browser is given that cookie; and the session of
\* the next request that presents it has the keys of the cookie, with their
\* values.
C16_FlashAcrossRequests ==
    [][(Has(opts, "flash") /\ opts["flash"] = TRUE) =>
        /\ (/\ pc = "handler" /\ ends = <<>>
            /\ ret'.op = "get" /\ ret'.key \in UserKeys) =>
             LET before == heap[req.session].props
                 after == heap'[req.session].props
             IN  /\ ~Has(after, ret'.key)
                 /\ UserData(after) = UserData(DeleteProp(before, ret'.key))
        /\ (pc = "handler" /\ ends = <<>> /\ ends' # <<>>) =>
             LET s == JSONparse(ends'[1].token.body.session)
             IN  /\ UserData(s) = UserData(heap[req.session].props)
                 /\ (ret.op = "get" /\ ret.key \in UserKeys) => ~Has(s, ret.key)
        /\ (pc = "handler" /\ pc' = "idle" /\ res.endCalls # <<>>) =>
             jar'.value = ends[1].token
        /\ (/\ pc = "loading" /\ pc' = "handler"
            /\ req.cookie = jar /\ jar.value.kind = "jwt"
            /\ now < jar.value.body.exp) =>
             UserData(heap'[req'.session].props) =
                 UserData(JSONparse(jar.value.body.session))]_vars

\* the second request presented a cookie with date and data2, read date, and
\* ended: the cookie it writes has data2 as it was, and no date
C16_Witness ==
    /\ Has(opts, "flash") /\ opts["flash"] = TRUE
    /\ nreq = 2 /\ pc = "handler"
    /\ req.cookie = jar /\ jar.value.kind = "jwt"
    /\ UserData(JSONparse(jar.value.body.session)) =
           [date |-> Json(1), data2 |-> Json(2)]
    /\ ends # <<>>
    /\ UserData(JSONparse(ends[1].token.body.session)) = [data2 |-> Json(2)]

----------------------------------------------------------------------------
(* Properties of the middleware's failures, under Spec and SpecLive.       *)

\* C17: whatever fails while the middleware handles a request, a session
\* already on the request, a load that fails or options that are invalid,
\* reaches next as its argument; the promise of the middleware's handler is
\* never rejected, and nothing is thrown.
C17_FailuresReachNext ==
    /\ pc # "rejected"
    /\ thrown = NoError
    /\ pc = "errored" => Len(nextCalls) = 1 /\ nextCalls[1] # NoError

\* C18: express(opts) resolves and validates the options, once: with a
\* secret that is not valid it raises, so that no request is ever handled
\* and no controller ever constructed with such options.
C18_ValidatedAtSetup ==
    (~Has(opts, "secret") \/ Len(opts["secret"]) < 16) =>
        /\ nreq = 0
        /\ pc = "idle"
        /\ cs = NoThis

\* C19: an invocation of the intercepted res.end is followed, sooner or
\* later, by an invocation of the original end with the same arguments,
\* however encoding the data and writing the cookie went.
C19_EndEventually ==
    [](ends # <<>> => <>(ends # <<>> /\ res.endCalls = <<ends[1].args>>))

----------------------------------------------------------------------------
(* SpecLoad: a caller constructing a controller on a request that carries  *)
(* a cookie or none, writing keys and reading the sessionId, and loading.  *)

\* the Cookie header of the request the controller is to be constructed on
LoadCookies ==
    LET name == Coalesce(opts, "name", DefaultName)
        secret == Coalesce(opts, "secret", <<>>)
    IN  {[name |-> name, value |-> Issued(secret, now)],
         [name |-> name, value |-> Tampered(Issued(secret, now))],
         [name |-> name, value |-> Stale(secret, now)],
         [name |-> name, value |-> Forged(now)],
         [name |-> name, value |-> Garbage],
         [name |-> "other", value |-> Issued(secret, now)]}

\* a request arrives with a Cookie header
Receive(cookie) ==
    /\ pc = "idle"
    /\ req = NoReq
    /\ req' = [req EXCEPT !.cookie = cookie]
    /\ UNCHANGED <<pair, caller, opts, now, uuids, jar, nreq, pc, res, cs, heap, load, ends,
                   nextCalls, cbq, thrown, ret>>

\* await obj.loadCookieData(): ret.key tells whether decryptData was called
LoadCookie ==
    /\ pc = "constructed"
    /\ \E l \in {loadCookieDataStart(cs, heap, req, now)} :
           /\ l.load.state # "rejected"
           /\ IF l.load.state = "decrypted"
              THEN \E r \in {loadCookieDataResume(cs, l.heap, l.load.cookieData)} :
                       /\ cs' = r.this
                       /\ heap' = Collect(r.heap, {r.this.data})
                       /\ ret' = [op |-> "loadCookieData", key |-> "decryptData",
                                  val |-> Undefined]
              ELSE /\ cs' = cs
                   /\ heap' = l.heap
                   /\ ret' = [op |-> "loadCookieData", key |-> "", val |-> Undefined]
    /\ UNCHANGED <<pair, caller, opts, now, uuids, jar, nreq, pc, req, res, load, ends,
                   nextCalls, cbq, thrown>>

LoadOptions ==
    {Spread([secret |-> Secret], f) : f \in {EmptyObject, [flash |-> TRUE]}}

InitLoad ==
    /\ opts \in LoadOptions
    /\ Idle

NextLoad ==
    \/ \E c \in LoadCookies : Receive(c)
    \/ Construct
    \/ \E k \in UserKeys, v \in Vals : SetData(k, v)
    \/ ReadSessionId
    \/ LoadCookie

SpecLoad == InitLoad /\ [][NextLoad]_vars

----------------------------------------------------------------------------
(* Properties of loadCookieData, under SpecLoad.                           *)

\* C21: when the request carries the cookie and decoding it yields the empty
\* map, as it does when verification fails, loadCookieData leaves the data
\* map as it was: every key it had, an id made by reading sessionId
\* included, is there afterwards with the value it had.
C21_FailedDecodeKeepsData ==
    [][(/\ ret'.op = "loadCookieData"
        /\ cookiesGet(req, cs.opts["name"]).value.kind # "none"
        /\ decryptData(cs, req.cookie.value, now).value = EmptyObject) =>
            heap'[cs'.data].props = heap[cs.data].props]_vars

\* C22: when the request carries the cookie and decoding it yields a map M
\* that is not empty, the data map after loadCookieData is M, whatever keys
\* it had before, and it is behind the Proxy.
C22_LoadReplaces ==
    [][(/\ ret'.op = "loadCookieData"
        /\ cookiesGet(req, cs.opts["name"]).value.kind # "none"
        /\ decryptData(cs, req.cookie.value, now).value # EmptyObject) =>
            /\ heap'[cs'.data].props = decryptData(cs, req.cookie.value, now).value
            /\ heap'[cs'.data].proxy]_vars

\* the data map had an id made by reading sessionId: it is now the map of
\* the cookie, with the id of the cookie
C22_Witness ==
    /\ ret.op = "loadCookieData"
    /\ req.cookie = [name |-> DefaultName, value |-> Issued(Secret, now)]
    /\ heap[cs.data] = [props |-> [id |-> Uuid(0), date |-> Json(1)], proxy |-> TRUE]
    /\ uuids = 1

\* C23: when the request carries no cookie under the configured name,
\* loadCookieData calls decryptData not at all and leaves the data map what
\* it was, empty after construction.
C23_NoCookieNoDecode ==
    [][(/\ ret'.op = "loadCookieData"
        /\ (req.cookie.value.kind = "none" \/ req.cookie.name # cs.opts["name"])) =>
            /\ ret'.key = ""
            /\ cs' = cs
            /\ heap'[cs.data].props = heap[cs.data].props
            /\ heap'[cs.data].proxy]_vars

\* the request carried a cookie of another name: the data map is empty
C23_Witness ==
    /\ ret = [op |-> "loadCookieData", key |-> "", val |-> Undefined]
    /\ req.cookie.name = "other"
    /\ req.cookie.value.kind = "jwt"
    /\ heap[cs.data] = [props |-> EmptyObject, proxy |-> TRUE]

\* C25: a cookie that loadCookieData decodes leaves the data map empty, or
\* equal to the session of a token signed under the secret of the
\* controller; after a cookie that was altered, or signed under another
\* secret, the data map is empty.
C25_OnlySignedData ==
    [][(ret'.op = "loadCookieData" /\ ret'.key = "decryptData") =>
        LET c == req.cookie.value
            signed == c.kind = "jwt" /\ c.sig = HS256(cs.opts["secret"], c.body)
            after == heap'[cs'.data].props
        IN  /\ \/ after = EmptyObject
               \/ signed /\ after = JSONparse(c.body.session)
            /\ ~signed => after = EmptyObject]_vars

\* an altered cookie, whose payload has an id and two keys, was loaded
C25_Witness ==
    /\ ret = [op |-> "loadCookieData", key |-> "decryptData", val |-> Undefined]
    /\ req.cookie.value = Tampered(Issued(Secret, now))
    /\ DOMAIN JSONparse(req.cookie.value.body.session) = {"id", "date", "data2"}
    /\ heap[cs.data] = [props |-> EmptyObject, proxy |-> TRUE]

----------------------------------------------------------------------------
(* Properties of the identifier, under SpecData.                           *)

\* C24: a read of sessionId when the data map has no id makes a new
\* identifier, stores it under id and returns it; a read when it has one
\* returns that one, makes none and changes nothing; and nothing a caller
\* does other than regenerate(true) changes the id the data map has.  This
\* with flash true as with flash false or left out.
C24_SessionIdStable ==
    [][(pc = "constructed" /\ pc' = "constructed") =>
        LET before == heap[cs.data].props
            after == heap'[cs'.data].props
        IN  /\ ret'.op = "sessionId" =>
                IF Has(before, "id")
                THEN /\ ret'.val = before["id"]
                     /\ uuids' = uuids
                     /\ after = before
                ELSE /\ ret'.val = Uuid(uuids + 1)
                     /\ uuids' = uuids + 1
                     /\ after = Assign(before, "id", ret'.val)
            /\ (Has(before, "id") /\ ~(ret'.op = "regenerate" /\ ret'.key = "true")) =>
                Has(after, "id") /\ after["id"] = before["id"]]_vars

\* with flash true and the data map behind the Proxy, after a save, the id
\* is the first one made and it was the last thing read
C24_Witness ==
    /\ Has(opts, "flash") /\ opts["flash"] = TRUE
    /\ ret = [op |-> "sessionId", key |-> "id", val |-> Uuid(1)]
    /\ heap[cs.data].proxy
    /\ heap[cs.data].props = [id |-> Uuid(1)]
    /\ uuids = 1
    /\ Len(res.setCookie) = 1

----------------------------------------------------------------------------
(* Properties of the lifetime of a session, under SpecSeq.                 *)

\* C26: a request that presents a cookie whose token was encoded more than
\* round(duration / 1000) seconds before is handled as one with no session:
\* next is called with no error, the session attached has no key of user
\* data, and its id is one made for this request.
C26_ExpiredIsNoSession ==
    [][(/\ pc = "loading" /\ pc' # "loading"
        /\ req.cookie = jar /\ jar.value.kind = "jwt"
        /\ \E r \in 0..(now - jar.value.body.iat - 1) :
               \* r = round(duration / 1000)
               /\ 2 * 1000 * r - 1000 <= 2 * cs.opts["duration"]
               /\ 2 * cs.opts["duration"] < 2 * 1000 * r + 1000) =>
            /\ pc' = "handler"
            /\ nextCalls' = <<NoError>>
            /\ thrown' = NoError
            /\ UserData(heap'[req'.session].props) = EmptyObject
            /\ uuids' = uuids + 1
            /\ req'.sessionID = Uuid(uuids')
            /\ heap'[req'.session].props["id"] = Uuid(uuids')
            /\ JSONparse(jar.value.body.session)["id"] # Uuid(uuids')]_vars

\* the second request presented, two seconds after it was written, a cookie
\* good for one second that carries a key, and has another id and no key
C26_Witness ==
    /\ nreq = 2 /\ pc = "handler"
    /\ req.cookie = jar /\ jar.value.kind = "jwt"
    /\ cs.opts["duration"] = 1000
    /\ now = jar.value.body.iat + 2
    /\ Has(JSONparse(jar.value.body.session), "date")
    /\ JSONparse(jar.value.body.session)["id"] = Uuid(1)
    /\ req.sessionID = Uuid(2)
    /\ nextCalls = <<NoError>>
    /\ ret = NoRet
    /\ UserData(heap[req.session].props) = EmptyObject

----------------------------------------------------------------------------
(* Properties of the token, under SpecCodec.                               *)

\* C27: the token encryptData returns carries the payload {session: the
\* data map}, is signed under the secret of the options, is valid from the
\* time of encoding, with no offset, and expires round(duration / 1000)
\* seconds after it, a half rounding up: 86400 seconds when no duration is
\* given.
C27_TokenShape ==
    [][caller'.token # caller.token =>
        LET token == caller'.token
            duration == IF Has(opts, "duration") THEN opts["duration"] ELSE 86400000
            seconds == token.body.exp - token.body.iat
        IN  /\ token.kind = "jwt"
            /\ JSONparse(token.body.session) = heap[cs.data].props
            /\ token.sig = HS256(opts["secret"], token.body)
            /\ token.body.iat = now
            /\ token.body.nbf = token.body.iat
            /\ 2 * 1000 * seconds - 1000 <= 2 * duration
            /\ 2 * duration < 2 * 1000 * seconds + 1000
            /\ ~Has(opts, "duration") => seconds = 86400]_vars

\* a duration of 2500 ms gave a token, made at time 1, good for 3 seconds
C27_Witness ==
    /\ Has(opts, "duration") /\ opts["duration"] = 2500
    /\ caller.token.kind = "jwt"
    /\ caller.token.body.iat = 1
    /\ caller.token.body.nbf = 1
    /\ caller.token.body.exp = 4
    /\ caller.data # EmptyObject

----------------------------------------------------------------------------
(* Properties of saveCookieData, under SpecData.                           *)

----------------------------------------------------------------------------
(* Properties of the operations on req.session, under Spec.                *)

\* C29: when req.session.destroy(cb) returns, req.session is the data map
\* of the controller, with no key of user data and the id it had, which
\* req.sessionID still is, and no identifier was made; the callback is then
\* pending, once, with no error, and is passed none when it runs; and a
\* response ended right after writes a cookie whose session is that id
\* alone.
C29_DestroyNow ==
    [][/\ (/\ pc = "handler" /\ ends = <<>>
           /\ ret'.key = "destroy" /\ ret'.op \in {"call", "TypeError"}) =>
            /\ ret'.op = "call"
            /\ req'.session = cs'.data
            /\ UserData(heap'[req'.session].props) = EmptyObject
            /\ req'.sessionID = req.sessionID
            /\ heap'[req'.session].props["id"] = req.sessionID
            /\ uuids' = uuids
            /\ \/ cbq' = cbq
               \/ cbq' = Append(cbq, [error |-> NoError])
       /\ Len(cbq') < Len(cbq) =>
            /\ cbq' = Tail(cbq)
            /\ ret' = [op |-> "callback", key |-> NoError, val |-> Undefined]
       /\ (/\ pc = "handler" /\ ends = <<>> /\ ends' # <<>>
           /\ ret.op = "call" /\ ret.key = "destroy") =>
            JSONparse(ends'[1].token.body.session) = [id |-> req.sessionID]]_vars

\* the session loaded from a cookie had a key; destroy(cb) has returned, the
\* key is gone, the id is the one of the cookie and the callback is pending
C29_Witness ==
    /\ pc = "handler"
    /\ ret.op = "call" /\ ret.key = "destroy"
    /\ req.cookie.value.kind = "jwt"
    /\ JSONparse(req.cookie.value.body.session) = [id |-> Uuid(0), date |-> Json(1)]
    /\ req.sessionID = Uuid(0)
    /\ UserData(heap[req.session].props) = EmptyObject
    /\ heap[req.session].props["id"] = Uuid(0)
    /\ cbq = <<[error |-> NoError]>>

\* C30: a call of req.session.reload(cb), save(cb) or touch(cb) leaves the
\* session's id and every key of user data as they were and writes no
\* cookie, and the callback supplied is then pending, once, with no error.
C30_NoOps ==
    [][(/\ pc = "handler" /\ ends = <<>>
        /\ ret'.key \in {"reload", "save", "touch"}
        /\ ret'.op \in {"call", "TypeError"}) =>
            /\ ret'.op = "call"
            /\ req' = req
            /\ cs' = cs
            /\ uuids' = uuids
            /\ res' = res
            /\ heap'[req.session].props["id"] = heap[req.session].props["id"]
            /\ UserData(heap'[req.session].props) = UserData(heap[req.session].props)
            /\ \/ cbq' = cbq
               \/ cbq' = Append(cbq, [error |-> NoError])]_vars

----------------------------------------------------------------------------
(* Properties of the order of things in a request, under Spec.             *)

\* C31: in a request the middleware handles, a save has begun, or a cookie
\* has been written, only on a controller whose loadCookieData has resolved:
\* the handler of the middleware went on past its await with no error, the
\* data map is behind the Proxy, and res.end is the intercepted one.
C31_LoadBeforeSave ==
    (ends # <<>> \/ res.setCookie # <<>>) =>
        /\ pc = "handler"
        /\ load = NoLoad
        /\ nextCalls = <<NoError>>
        /\ req.cookieSession
        /\ cs # NoThis
        /\ heap[cs.data].proxy
        /\ res.patched

\* a cookie was written in a request whose cookie was loaded
C31_Witness ==
    /\ Len(res.setCookie) = 1
    /\ req.cookie.value.kind = "jwt"
    /\ JSONparse(res.setCookie[1].value.body.session)["id"] = Uuid(0)
    /\ heap[cs.data].proxy

----------------------------------------------------------------------------
(* Properties of the keys of req.session, under Spec.                      *)

\* C32: with flash=true, a read of a key of req.session, be it to use its
\* value or to call reload, save or touch, removes no key but the one read:
\* every other key the data map had is there afterwards with the value it
\* had, and no key is added.
C32_ReadRemovesOnlyKey ==
    [][(/\ Has(opts, "flash") /\ opts["flash"] = TRUE
        /\ pc = "handler" /\ ends = <<>>
        /\ \/ ret'.op = "get"
           \/ ret'.op \in {"call", "TypeError"} /\ ret'.key \in {"reload", "save", "touch"}) =>
            LET before == heap[req.session].props
                after == heap'[req.session].props
            IN  /\ req' = req
                /\ (DOMAIN before) \ {ret'.key} \subseteq DOMAIN after
                /\ DOMAIN after \subseteq DOMAIN before
                /\ \A j \in (DOMAIN before) \ {ret'.key} : after[j] = before[j]]_vars

\* date was read, with its value, and is gone; data2, the id and the five
\* operations are as they were
C32_Witness ==
    /\ Has(opts, "flash") /\ opts["flash"] = TRUE
    /\ pc = "handler"
    /\ ret = [op |-> "get", key |-> "date", val |-> Json(1)]
    /\ DOMAIN heap[req.session].props = {"id", "data2"} \cup OpKeys
    /\ heap[req.session].props["data2"] = Json(2)

\* C34: from the time the session is attached until the response is ended,
\* whatever keys the handler has read and whichever of destroy, regenerate,
\* reload, save and touch it has called, req.session has all five, each a
\* function, with flash true as with flash false.
C34_OperationsStay ==
    (pc = "handler" /\ ends = <<>>) =>
        \A i \in DOMAIN OpNames :
            /\ Has(heap[req.session].props, OpNames[i])
            /\ heap[req.session].props[OpNames[i]] = Fn(i)

\* C35: from the time the session is attached on, whatever the handler has
\* written to keys other than id and whichever operations it has called,
\* req.session is the data map of the controller as it now is, and
\* req.sessionID is the id in that map.
C35_SessionIsCurrent ==
    pc = "handler" =>
        /\ req.session = cs.data
        /\ Has(heap[cs.data].props, "id")
        /\ req.sessionID = heap[cs.data].props["id"]

\* regenerate was called on a session loaded from a cookie: req.sessionID
\* is the new id
C35_Witness ==
    /\ pc = "handler"
    /\ ret.op = "call" /\ ret.key = "regenerate"
    /\ req.cookie.value.kind = "jwt"
    /\ JSONparse(req.cookie.value.body.session)["id"] = Uuid(0)
    /\ req.sessionID = Uuid(1)
    /\ heap[req.session].props["id"] = Uuid(1)

\* C36: no cookie that is written, or is about to be, carries an operation:
\* the keys of its session are the id and keys of user data, and no other.
C36_NoOperationsInCookie ==
    /\ \A i \in DOMAIN res.setCookie :
           DOMAIN JSONparse(res.setCookie[i].value.body.session)
               \subseteq {"id"} \cup UserKeys
    /\ \A i \in DOMAIN ends :
           DOMAIN JSONparse(ends[i].token.body.session) \subseteq {"id"} \cup UserKeys

\* with flash left out, the session has the five operations, and the cookie
\* written from it the id and a key of user data
C36_Witness ==
    /\ ~Has(opts, "flash")
    /\ Len(res.setCookie) = 1
    /\ OpKeys \subseteq DOMAIN heap[req.session].props
    /\ DOMAIN JSONparse(res.setCookie[1].value.body.session) = {"id", "date"}

\* C37: in the handling of a request next is called once at most: never
\* twice, and so never with an error and also without one.
C37_NextAtMostOnce ==
    Len(nextCalls) <= 1

\* the load failed, next was called with its error, and the response ended
C37_Witness ==
    /\ pc = "errored"
    /\ req.cookieSession
    /\ Len(nextCalls) = 1 /\ nextCalls[1] # NoError
    /\ res.endCalls # <<>>

\* C39: with flash=true, however the reads of the branches of a handler
\* fall in order, each read being one step: a read of a key of user data
\* that returns a value finds the key there and leaves the map without it; a
\* key the map is without stays out of it until it is written; so a read
\* that follows a read of the same key returns nothing, and of the reads of
\* a key written once one at most returns what was written.
C39_OneReadWins ==
    [][(/\ Has(opts, "flash") /\ opts["flash"] = TRUE
        /\ pc = "handler" /\ ends = <<>> /\ ends' = <<>>) =>
        LET before == heap[req.session].props
            after == heap'[req'.session].props
        IN  /\ (ret'.op = "get" /\ ret'.key \in UserKeys /\ ret'.val # Undefined) =>
                /\ Has(before, ret'.key)
                /\ before[ret'.key] = ret'.val
                /\ ~Has(after, ret'.key)
            /\ \A k \in UserKeys :
                (~Has(before, k) /\ ~(ret'.op = "set" /\ ret'.key = k)) => ~Has(after, k)
            /\ (/\ ret.op = "get" /\ ret'.op = "get"
                /\ ret'.key = ret.key /\ ret.key \in UserKeys) =>
                ret'.val = Undefined]_vars

\* the request came with no cookie; the last read, of date, returned
\* nothing and date is not in the map, while data2, written and not read, is
C39_Witness ==
    /\ Has(opts, "flash") /\ opts["flash"] = TRUE
    /\ pc = "handler" /\ ends = <<>>
    /\ req.cookie = NoHeader
    /\ ret = [op |-> "get", key |-> "date", val |-> Undefined]
    /\ ~Has(heap[req.session].props, "date")
    /\ Has(heap[req.session].props, "data2")

----------------------------------------------------------------------------
(* A property of the options, under SpecCtor.                              *)

\* C38: constructing a controller, validation passing or failing, changes
\* nothing of the options object the caller passed: no field is added, none
\* removed, none changed.
C38_OptionsUntouched ==
    [][opts' = opts]_vars

----------------------------------------------------------------------------
(* SpecPair: one middleware handling two requests at the same time.  Each  *)
(* request has a slot; the steps of the two, from one await or statement   *)
(* of a handler to the next, fall in any order.  The heap, the options     *)
(* object express(opts) closed over, the clock and randomUUID are the      *)
(* same for both.                                                          *)

\* the data maps the controllers of the slots refer to
Roots(p) == {p[j].cs.data : j \in Slots}

\* the express handler for the request of slot i, up to its await
PairMiddleware(i, cookie) ==
    /\ pair[i].pc = "idle"
    /\ \E c \in {CookieSession(opts, heap)} :
           /\ c.thrown = NoError
           /\ \E l \in {loadCookieDataStart(c.this, c.heap,
                                            [NoReq EXCEPT !.cookie = cookie], now)} :
                  /\ l.load.state # "rejected"
                  /\ heap' = l.heap
                  /\ pair' = [pair EXCEPT ![i] =
                                [pc   |-> "loading",
                                 req  |-> [NoReq EXCEPT !.cookie = cookie,
                                                        !.cookieSession = TRUE],
                                 res  |-> NoRes,
                                 cs   |-> c.this,
                                 load |-> l.load,
                                 ret  |-> NoRet]]
           /\ opts' = c.caller
    /\ UNCHANGED <<caller, now, uuids, jar, nreq, pc, req, res, cs, load, ends,
                   nextCalls, cbq, thrown, ret>>

\* the handler of slot i resumes: loadCookieData() ends, the session is
\* attached, res.end replaced, next() called
PairResume(i) ==
    /\ pair[i].pc = "loading"
    /\ \E r \in {IF pair[i].load.state = "decrypted"
                 THEN loadCookieDataResume(pair[i].cs, heap, pair[i].load.cookieData)
                 ELSE [this |-> pair[i].cs, heap |-> heap]} :
       \E c \in {createSessionObject(pair[i].req, r.this, r.heap, uuids)} :
           /\ c.uuids <= MaxUuid
           /\ uuids' = c.uuids
           /\ pair' = [pair EXCEPT ![i].pc = "handler",
                                   ![i].req = c.req,
                                   ![i].res = [@ EXCEPT !.patched = TRUE],
                                   ![i].cs = r.this,
                                   ![i].load = NoLoad]
           /\ heap' = Collect(c.heap, Roots(pair'))
    /\ UNCHANGED <<caller, opts, now, jar, nreq, pc, req, res, cs, load, ends,
                   nextCalls, cbq, thrown, ret>>

\* req.session[k] = v in the handler of slot i
PairSet(i, k, v) ==
    /\ pair[i].pc = "handler"
    /\ heap' = [heap EXCEPT ![pair[i].req.session] = Set(@, k, v)]
    /\ pair' = [pair EXCEPT ![i].ret = [op |-> "set", key |-> k, val |-> v]]
    /\ UNCHANGED <<caller, opts, now, uuids, jar, nreq, pc, req, res, cs, load, ends,
                   nextCalls, cbq, thrown, ret>>

\* req.session[k] in the handler of slot i
PairGet(i, k) ==
    /\ pair[i].pc = "handler"
    /\ \E r \in {Get(pair[i].cs, heap[pair[i].req.session], k)} :
           /\ heap' = [heap EXCEPT ![pair[i].req.session] = r.obj]
           /\ pair' = [pair EXCEPT ![i].ret = [op |-> "get", key |-> k, val |-> r.value]]
    /\ UNCHANGED <<caller, opts, now, uuids, jar, nreq, pc, req, res, cs, load, ends,
                   nextCalls, cbq, thrown, ret>>

\* req.session.destroy() (n = 1) or req.session.regenerate() (n = 2) in the
\* handler of slot i
PairCall(i, n) ==
    /\ pair[i].pc = "handler"
    /\ \E g \in {Get(pair[i].cs, heap[pair[i].req.session], OpNames[n])} :
           /\ g.value = Fn(n)
           /\ \E r \in {regenerate(pair[i].cs,
                                   [heap EXCEPT ![pair[i].req.session] = g.obj],
                                   n = 2, uuids)} :
              \E c \in {createSessionObject(pair[i].req, r.this, r.heap, r.uuids)} :
                  /\ c.uuids <= MaxUuid
                  /\ uuids' = c.uuids
                  /\ pair' = [pair EXCEPT
                                ![i].cs = r.this,
                                ![i].req = c.req,
                                ![i].ret = [op |-> "call", key |-> OpNames[n],
                                            val |-> g.value]]
                  /\ heap' = Collect(c.heap, Roots(pair'))
    /\ UNCHANGED <<caller, opts, now, jar, nreq, pc, req, res, cs, load, ends,
                   nextCalls, cbq, thrown, ret>>

\* the handler of slot i ends the response: saveCookieData(), then the
\* original end
PairEnd(i, args) ==
    /\ pair[i].pc = "handler"
    /\ \E e \in {encryptData(pair[i].cs, heap, now)} :
           /\ heap' = e.heap
           /\ pair' = [pair EXCEPT
                         ![i].pc = "ended",
                         ![i].res = [cookiesSet(@, pair[i].cs.opts["name"], e.token,
                                                pair[i].cs.opts["cookie"])
                                        EXCEPT !.endCalls = Append(@, args)],
                         ![i].ret = [op |-> "end", key |-> "", val |-> Undefined]]
    /\ UNCHANGED <<caller, opts, now, uuids, jar, nreq, pc, req, res, cs, load, ends,
                   nextCalls, cbq, thrown, ret>>

PairOptions ==
    {Spread([secret |-> Secret], f) : f \in {EmptyObject, [flash |-> TRUE]}}

\* the two requests come with no cookie, or with the cookie of one session
PairCookies ==
    {NoHeader, [name |-> DefaultName, value |-> Issued(Secret, now)]}

InitPair ==
    /\ opts \in PairOptions
    /\ Idle

NextPair ==
    \E i \in Slots :
        \/ \E c \in PairCookies : PairMiddleware(i, c)
        \/ PairResume(i)
        \/ \E k \in UserKeys, v \in Vals :
               pair[i].ret.op \in {"", "set"} /\ PairSet(i, k, v)
        \/ PairGet(i, "date")
        \/ \E n \in {1, 2} : pair[i].ret = NoRet /\ PairCall(i, n)
        \/ PairEnd(i, [chunk |-> "body", encoding |-> "utf8", cb |-> 1])

SpecPair == InitPair /\ [][NextPair]_vars

\* C33: however the steps of two requests handled by one middleware fall, each
\* request has a controller and a data map of its own: a step (a write, a
\* read, with flash or without, destroy, regenerate, the end of the response)
\* is the step of one request, and leaves the other request's data map, its
\* req.sessionID and its response's cookie as they were; and the cookie
\* written for a request is made of that request's data map and identifier.
C33_RequestsApart ==
    [][/\ \E i \in Slots :
              /\ pair'[i] # pair[i]
              /\ \A j \in Slots \ {i} :
                     /\ pair'[j] = pair[j]
                     /\ pair[j].cs.data # NoAddr =>
                            heap'[pair[j].cs.data] = heap[pair[j].cs.data]
       /\ \A i \in Slots, j \in Slots :
              (i # j /\ pair'[i].cs.data # NoAddr /\ pair'[j].cs.data # NoAddr) =>
                  pair'[i].cs.data # pair'[j].cs.data
       /\ \A i \in Slots :
              (pair[i].pc = "handler" /\ pair'[i].pc = "ended") =>
                  /\ Len(pair'[i].res.setCookie) = 1
                  /\ LET s == JSONparse(pair'[i].res.setCookie[1].value.body.session)
                     IN  /\ Has(s, "id") /\ s["id"] = pair[i].req.sessionID
                         /\ UserData(s) = UserData(heap[pair[i].cs.data].props)
      ]_vars

\* two requests of one session in their handlers at once: the one has written
\* a date, the other destroyed its session, and the data map of the first
\* has the date and the identifier still
C33_Witness ==
    /\ pair[1].pc = "handler" /\ pair[2].pc = "handler"
    /\ pair[1].req.cookie # NoHeader /\ pair[2].req.cookie # NoHeader
    /\ pair[1].ret = [op |-> "set", key |-> "date", val |-> Json(2)]
    /\ pair[2].ret.op = "call" /\ pair[2].ret.key = "destroy"
    /\ Has(heap[pair[1].cs.data].props, "date")
    /\ heap[pair[1].cs.data].props["date"] = Json(2)
    /\ UserData(heap[pair[2].cs.data].props) = << >>
    /\ pair[1].req.sessionID = pair[2].req.sessionID
    /\ pair[1].cs.data # pair[2].cs.data

====
